---------------------------- MODULE Spec2Model ----------------------------
(***************************************************************************)
(* Linkerd policy analyzer (internal/policy): forward resolution           *)
(* GetAllowedTargets and reverse resolution GetAllowedSources over the     *)
(* objects of the Object Source (pods, Servers, AuthorizationPolicies,     *)
(* MeshTLSAuthentications, NetworkAuthentications).                        *)
(*                                                                         *)
(* Objects are modelled as the unstructured maps the code reads: an        *)
(* optional field is a sequence of length 0 (absent) or 1 (present).       *)
(* A label map is a set of <<key, value>> pairs.  Every call names its     *)
(* namespace and workload (both non-empty strings).                        *)
(***************************************************************************)
EXTENDS Integers, Sequences, FiniteSets, Bags, TLC

(***************************************************************************)
(* Bounds of the model: how many Servers and AuthorizationPolicies the     *)
(* Object Source holds at most.                                            *)
(***************************************************************************)
MaxServers == 2
MaxPolicies == 2

Namespaces == {"prod", "dev"}
SourceWorkloads == {"frontend", "batch", "ghost"}
TargetWorkloads == {"backend", "api"}
ErrorTexts == {"connection refused"}

(***************************************************************************)
(* Pods of the cluster, in the order the pod list returns them.            *)
(***************************************************************************)
PodFixture ==
  << [namespace |-> "dev",  name |-> "frontend-1", app |-> "frontend", serviceAccountName |-> "frontend-sa"],
     [namespace |-> "prod", name |-> "batch-1",    app |-> "batch",    serviceAccountName |-> ""],
     [namespace |-> "prod", name |-> "frontend-1", app |-> "frontend", serviceAccountName |-> "frontend-sa"],
     [namespace |-> "prod", name |-> "frontend-2", app |-> "frontend", serviceAccountName |-> "other-sa"] >>

(***************************************************************************)
(* Server objects the owner may have created, in list order (namespace,    *)
(* name).  Three keys; prod/api-server and prod/backend-server come in     *)
(* several shapes, of which a cluster holds at most one.                   *)
(***************************************************************************)
Selector(labels) == << [matchLabels |-> << labels >>] >>

ServerUniverse ==
  << [namespace |-> "dev",  name |-> "backend-server", podSelector |-> Selector({<<"app", "backend">>}), port |-> <<8080>>],
     [namespace |-> "prod", name |-> "api-server",     podSelector |-> Selector({<<"tier", "api">>}),  port |-> <<9090>>],
     [namespace |-> "prod", name |-> "api-server",     podSelector |-> Selector({}),                    port |-> <<9090>>],
     [namespace |-> "prod", name |-> "backend-server", podSelector |-> Selector({<<"app", "backend">>}), port |-> <<8080>>],
     [namespace |-> "prod", name |-> "backend-server", podSelector |-> Selector({<<"app", "backend">>}), port |-> <<>>],
     [namespace |-> "prod", name |-> "backend-server", podSelector |-> << [matchLabels |-> <<>>] >>,     port |-> <<8080>>],
     [namespace |-> "prod", name |-> "backend-server", podSelector |-> <<>>,                             port |-> <<8080>>] >>

Ref(kind, name) == [kind |-> kind, name |-> name]
MeshTLS == "MeshTLSAuthentication"
Network == "NetworkAuthentication"
Target(name) == << [kind |-> "Server", name |-> name] >>

(***************************************************************************)
(* AuthorizationPolicy objects the owner may have created, in list order.  *)
(***************************************************************************)
PolicyUniverse ==
  << [namespace |-> "dev",  name |-> "allow-frontend", targetRef |-> Target("backend-server"),
      requiredAuthenticationRefs |-> << << Ref(MeshTLS, "sa-auth") >> >>],
     [namespace |-> "prod", name |-> "allow-all",      targetRef |-> Target("backend-server"),
      requiredAuthenticationRefs |-> << << Ref(MeshTLS, "all-auth") >> >>],
     [namespace |-> "prod", name |-> "allow-api",      targetRef |-> Target("api-server"),
      requiredAuthenticationRefs |-> << << Ref(MeshTLS, "sa-auth") >> >>],
     [namespace |-> "prod", name |-> "allow-frontend", targetRef |-> Target("backend-server"),
      requiredAuthenticationRefs |-> << << Ref(MeshTLS, "frontend-auth") >> >>],
     [namespace |-> "prod", name |-> "allow-legacy",   targetRef |-> Target("backend-server"),
      requiredAuthenticationRefs |-> << << Ref(MeshTLS, "legacy-auth") >> >>],
     [namespace |-> "prod", name |-> "allow-many",     targetRef |-> Target("backend-server"),
      requiredAuthenticationRefs |-> << << Ref("Unknown", "frontend-auth"), Ref(Network, "net-auth"),
                                           Ref(MeshTLS, "missing-auth"), Ref(MeshTLS, "frontend-auth"),
                                           Ref(MeshTLS, "sa-auth") >> >>],
     [namespace |-> "prod", name |-> "dangling",       targetRef |-> Target("missing-server"),
      requiredAuthenticationRefs |-> << << Ref(MeshTLS, "all-auth") >> >>],
     [namespace |-> "prod", name |-> "net-only",       targetRef |-> Target("backend-server"),
      requiredAuthenticationRefs |-> << << Ref(Network, "net-auth"), Ref(Network, "frontend-auth") >> >>],
     [namespace |-> "prod", name |-> "no-refs",        targetRef |-> Target("backend-server"),
      requiredAuthenticationRefs |-> <<>>],
     [namespace |-> "prod", name |-> "no-target",      targetRef |-> <<>>,
      requiredAuthenticationRefs |-> << << Ref(MeshTLS, "all-auth") >> >>],
     [namespace |-> "prod", name |-> "open",           targetRef |-> Target("backend-server"),
      requiredAuthenticationRefs |-> << <<>> >>] >>

TrustSuffix == ".serviceaccount.identity.linkerd.cluster.local"

(***************************************************************************)
(* Authentication objects of the cluster, keyed by resource, namespace     *)
(* and name.                                                               *)
(***************************************************************************)
AuthFixture ==
  { [resource |-> "meshtlsauthentications", namespace |-> "dev", name |-> "sa-auth",
     identities |-> <<>>,
     serviceAccounts |-> << [name |-> "frontend-sa", namespace |-> ""] >>,
     networks |-> <<>>],
    [resource |-> "meshtlsauthentications", namespace |-> "prod", name |-> "all-auth",
     identities |-> << "*" >>, serviceAccounts |-> <<>>, networks |-> <<>>],
    [resource |-> "meshtlsauthentications", namespace |-> "prod", name |-> "frontend-auth",
     identities |-> << "frontend-sa.prod" \o TrustSuffix, "prod/frontend-sa" >>,
     serviceAccounts |-> <<>>, networks |-> <<>>],
    [resource |-> "meshtlsauthentications", namespace |-> "prod", name |-> "legacy-auth",
     identities |-> << "*", "*", "all-authenticated" >>, serviceAccounts |-> <<>>, networks |-> <<>>],
    [resource |-> "meshtlsauthentications", namespace |-> "prod", name |-> "sa-auth",
     identities |-> <<>>,
     serviceAccounts |-> << [name |-> "frontend-sa", namespace |-> ""],
                            [name |-> "default", namespace |-> "prod"],
                            [name |-> "admin-sa", namespace |-> "admin"] >>,
     networks |-> <<>>],
    [resource |-> "networkauthentications", namespace |-> "prod", name |-> "net-auth",
     identities |-> <<>>, serviceAccounts |-> <<>>,
     networks |-> << [cidr |-> "10.0.0.0/8", except |-> << "10.1.0.0/16" >>],
                     [cidr |-> "192.168.0.0/16", except |-> <<>>] >>] }

VARIABLES
  pods,            \* Object Source: pods, in list order
  servers,         \* Object Source: Server objects, in list order
  policies,        \* Object Source: AuthorizationPolicy objects, in list order
  auths,           \* Object Source: authentication objects
  namespaces,      \* Object Source: Namespace objects, in list order
  accounts,        \* Object Source: ServiceAccount objects, as <<namespace, name>>
  pc,              \* position of the call in progress
  call,            \* operation and arguments of the call in progress
  serviceAccount,  \* GetAllowedTargets: the resolved service account
  serverList,      \* findAllowedTargets: the Servers returned by the list
  idx,             \* findAllowedTargets: index of the next Server of serverList
  allowedTargets,  \* findAllowedTargets: the descriptors collected so far
  matchingServers, \* GetAllowedSources: names returned by findServersForService
  report,          \* ValidateConfig: the ClusterValidationReport built so far
  steps,           \* changes made by the owner and calls returned, counted where bounded
  seen,            \* history: the states the Object Source has been in during a call
  reads,           \* list calls made to the Object Source by the call in progress
  result           \* the CallToolResult of the finished call

vars == << pods, servers, policies, auths, namespaces, accounts, steps, seen, pc, call,
           serviceAccount, serverList, idx, allowedTargets, matchingServers,
           report, reads, result >>

\* the Object Source, and the count of what happened to it
cluster == << pods, servers, policies, auths, namespaces, accounts, steps, seen >>


(***************************************************************************)
(* Helpers for optional fields and label maps.                             *)
(***************************************************************************)
Found(field) == Len(field) = 1
Value(field) == field[1]
HasLabel(labels, key, value) == <<key, value>> \in labels

RECURSIVE Pick(_, _, _)
Pick(universe, chosen, k) ==
  IF k > Len(universe) THEN <<>>
  ELSE (IF k \in chosen THEN << universe[k] >> ELSE <<>>) \o Pick(universe, chosen, k + 1)

UniqueNames(objects) ==
  \A i, j \in 1..Len(objects) :
     (objects[i].namespace = objects[j].namespace /\ objects[i].name = objects[j].name) => i = j

Clusters(universe, max) ==
  { Pick(universe, chosen, 1) :
      chosen \in { c \in SUBSET (1..Len(universe)) : Cardinality(c) <= max } }

NoResult == [isError |-> FALSE, text |-> "", body |-> <<>>]
Idle == [op |-> "none", namespace |-> "", service |-> ""]
\* ClusterValidationReport{Results: []ValidationResult{}, Summary: ValidationSummary{}}
NewReport ==
  [totalResources |-> 0, validResources |-> 0, results |-> <<>>,
   summary |-> [errors |-> 0, warnings |-> 0, info |-> 0]]

Init ==
  /\ pods = PodFixture
  /\ servers \in { s \in Clusters(ServerUniverse, MaxServers) : UniqueNames(s) }
  /\ policies \in Clusters(PolicyUniverse, MaxPolicies)
  /\ auths = AuthFixture
  /\ namespaces = <<>>
  /\ accounts = {}
  /\ steps = 0
  /\ seen = {}
  /\ report = NewReport
  /\ pc = "idle"
  /\ call = Idle
  /\ serviceAccount = ""
  /\ serverList = <<>>
  /\ idx = 0
  /\ allowedTargets = <<>>
  /\ matchingServers = <<>>
  /\ reads = <<>>
  /\ result = NoResult

(***************************************************************************)
(* The Object Source.  A list call returns the objects of a namespace in   *)
(* list order; a get returns the object of that resource, namespace and    *)
(* name, or nothing.  A list call may fail (the caller then sees err).     *)
(***************************************************************************)
\* the empty namespace is metav1.NamespaceAll: the objects of every namespace
InNamespace(object, namespace) == namespace = "" \/ object.namespace = namespace
ListIn(objects, namespace) == SelectSeq(objects, LAMBDA o : InNamespace(o, namespace))
ListPods(namespace, service) ==
  SelectSeq(pods, LAMBDA p : InNamespace(p, namespace) /\ p.app = service)
Get(resource, namespace, name) ==
  { a \in auths : a.resource = resource /\ a.namespace = namespace /\ a.name = name }
Read(resource, namespace, ok) == [resource |-> resource, namespace |-> namespace, ok |-> ok]

ErrorResult(text) == [isError |-> TRUE, text |-> text, body |-> <<>>]
TextResult(text) == [isError |-> FALSE, text |-> text, body |-> <<>>]
JSONResult(body) == [isError |-> FALSE, text |-> "", body |-> << body >>]

(***************************************************************************)
(* auth.go                                                                 *)
(***************************************************************************)
expectedIdentity(sourceServiceAccount, sourceNamespace) ==
  sourceServiceAccount \o "." \o sourceNamespace \o TrustSuffix

\* variant: the namespace of a service account entry is taken as written
checkAuthenticationMatchAsWritten(serverNamespace, authName, authKind, sourceNamespace, sourceServiceAccount) ==
  LET resource == IF authKind = Network THEN "networkauthentications" ELSE "meshtlsauthentications"
      got == Get(resource, serverNamespace, authName)
  IN  got # {} /\ LET auth == CHOOSE a \in got : TRUE
                  IN  \/ \E k \in 1..Len(auth.identities) :
                            auth.identities[k] \in {expectedIdentity(sourceServiceAccount, sourceNamespace), "*"}
                      \/ \E k \in 1..Len(auth.serviceAccounts) :
                            LET sa == auth.serviceAccounts[k]
                            IN  sa.name = sourceServiceAccount /\ sa.namespace = sourceNamespace

\* variant: a non-empty networks list grants as well
checkAuthenticationMatchNetworksGrant(serverNamespace, authName, authKind, sourceNamespace, sourceServiceAccount) ==
  LET resource == IF authKind = Network THEN "networkauthentications" ELSE "meshtlsauthentications"
      got == Get(resource, serverNamespace, authName)
  IN  got # {} /\ LET auth == CHOOSE a \in got : TRUE
                  IN  \/ \E k \in 1..Len(auth.identities) :
                            auth.identities[k] \in {expectedIdentity(sourceServiceAccount, sourceNamespace), "*"}
                      \/ \E k \in 1..Len(auth.serviceAccounts) :
                            LET sa == auth.serviceAccounts[k]
                                saNamespace == IF sa.namespace = "" THEN serverNamespace ELSE sa.namespace
                            IN  sa.name = sourceServiceAccount /\ saNamespace = sourceNamespace
                      \/ Len(auth.networks) > 0

checkAuthenticationMatch(serverNamespace, authName, authKind, sourceNamespace, sourceServiceAccount) ==
  LET resource == IF authKind = Network THEN "networkauthentications" ELSE "meshtlsauthentications"
      got == Get(resource, serverNamespace, authName)
  IN  got # {} /\ LET auth == CHOOSE a \in got : TRUE
                  IN  \/ \E k \in 1..Len(auth.identities) :
                            auth.identities[k] \in {expectedIdentity(sourceServiceAccount, sourceNamespace), "*"}
                      \/ \E k \in 1..Len(auth.serviceAccounts) :
                            LET sa == auth.serviceAccounts[k]
                                saNamespace == IF sa.namespace = "" THEN serverNamespace ELSE sa.namespace
                            IN  sa.name = sourceServiceAccount /\ saNamespace = sourceNamespace

\* variant: no authentication required means allowed
checkSourceAllowedByDefault(policy, serverNamespace, sourceNamespace, sourceServiceAccount) ==
  \/ ~Found(policy.requiredAuthenticationRefs)
  \/ Len(Value(policy.requiredAuthenticationRefs)) = 0
  \/ \E k \in 1..Len(Value(policy.requiredAuthenticationRefs)) :
        LET authRef == Value(policy.requiredAuthenticationRefs)[k]
        IN  /\ authRef.kind \in {MeshTLS, Network}
            /\ checkAuthenticationMatch(serverNamespace, authRef.name, authRef.kind,
                                        sourceNamespace, sourceServiceAccount)

checkSourceAllowed(policy, serverNamespace, sourceNamespace, sourceServiceAccount) ==
  /\ Found(policy.requiredAuthenticationRefs)
  /\ \E k \in 1..Len(Value(policy.requiredAuthenticationRefs)) :
        LET authRef == Value(policy.requiredAuthenticationRefs)[k]
        IN  /\ authRef.kind \in {MeshTLS, Network}
            /\ checkAuthenticationMatch(serverNamespace, authRef.name, authRef.kind,
                                        sourceNamespace, sourceServiceAccount)

(***************************************************************************)
(* targets.go                                                              *)
(***************************************************************************)
\* the pods listed and the outcome: an error text, or the service account
\* variant: the service account name of the pod is taken as it is
getServiceAccountForServiceAsNamed(namespace, service) ==
  LET items == ListPods(namespace, service)
  IN  IF Len(items) = 0
      THEN [err |-> "no pods found for service " \o service \o " in namespace " \o namespace,
            serviceAccount |-> ""]
      ELSE [err |-> "", serviceAccount |-> items[1].serviceAccountName]

\* variant: no pod means the default service account
getServiceAccountForServiceDefaulting(namespace, service) ==
  LET items == ListPods(namespace, service)
  IN  IF Len(items) = 0 THEN [err |-> "", serviceAccount |-> "default"]
      ELSE [err |-> "",
            serviceAccount |-> IF items[1].serviceAccountName = "" THEN "default"
                               ELSE items[1].serviceAccountName]

getServiceAccountForService(namespace, service) ==
  LET items == ListPods(namespace, service)
  IN  IF Len(items) = 0
      THEN [err |-> "no pods found for service " \o service \o " in namespace " \o namespace,
            serviceAccount |-> ""]
      ELSE [err |-> "",
            serviceAccount |-> IF items[1].serviceAccountName = "" THEN "default"
                               ELSE items[1].serviceAccountName]

\* the descriptor of a Server, or nothing when a field is missing
extractServerInfo(server, policyName) ==
  IF ~Found(server.podSelector) THEN <<>>
  ELSE IF ~Found(Value(server.podSelector).matchLabels) THEN <<>>
  ELSE IF ~Found(server.port) THEN <<>>
  ELSE << [namespace |-> server.namespace,
           server |-> server.name,
           labels |-> Value(Value(server.podSelector).matchLabels),
           port |-> Value(server.port),
           authorizationPolicy |-> policyName] >>

\* the loop over authPolicies.Items for one Server: the descriptors appended
\* variant: the target name of the policy is not compared
RECURSIVE targetsOfServerAnyTarget(_, _, _, _, _)
targetsOfServerAnyTarget(server, authPolicies, k, sourceNamespace, sourceServiceAccount) ==
  IF k > Len(authPolicies) THEN <<>>
  ELSE LET policy == authPolicies[k]
           rest == targetsOfServerAnyTarget(server, authPolicies, k + 1, sourceNamespace, sourceServiceAccount)
       IN  IF ~Found(policy.targetRef) THEN rest
           ELSE IF checkSourceAllowed(policy, server.namespace, sourceNamespace, sourceServiceAccount)
                THEN extractServerInfo(server, policy.name) \o rest
                ELSE rest

\* variant: a Server is described once, for the first policy that allows
\* the source
RECURSIVE targetsOfServerOnce(_, _, _, _, _)
targetsOfServerOnce(server, authPolicies, k, sourceNamespace, sourceServiceAccount) ==
  IF k > Len(authPolicies) THEN <<>>
  ELSE LET policy == authPolicies[k]
           rest == targetsOfServerOnce(server, authPolicies, k + 1, sourceNamespace, sourceServiceAccount)
       IN  IF ~Found(policy.targetRef) THEN rest
           ELSE IF Value(policy.targetRef).name # server.name THEN rest
           ELSE IF checkSourceAllowed(policy, server.namespace, sourceNamespace, sourceServiceAccount)
                THEN extractServerInfo(server, policy.name)
                ELSE rest

RECURSIVE targetsOfServer(_, _, _, _, _)
targetsOfServer(server, authPolicies, k, sourceNamespace, sourceServiceAccount) ==
  IF k > Len(authPolicies) THEN <<>>
  ELSE LET policy == authPolicies[k]
           rest == targetsOfServer(server, authPolicies, k + 1, sourceNamespace, sourceServiceAccount)
       IN  IF ~Found(policy.targetRef) THEN rest
           ELSE IF Value(policy.targetRef).name # server.name THEN rest
           ELSE IF checkSourceAllowed(policy, server.namespace, sourceNamespace, sourceServiceAccount)
                THEN extractServerInfo(server, policy.name) \o rest
                ELSE rest

(***************************************************************************)
(* GetAllowedTargets: the pod lookup; an error ends the call.              *)
(***************************************************************************)
GetAllowedTargets(sourceNamespace, sourceService) ==
  /\ pc = "idle"
  /\ call' = [op |-> "GetAllowedTargets", namespace |-> sourceNamespace, service |-> sourceService]
  /\ \/ \E e \in ErrorTexts :
          /\ reads' = << Read("pods", sourceNamespace, FALSE) >>
          /\ result' = ErrorResult("failed to list source pods: " \o e)
          /\ pc' = "done"
          /\ UNCHANGED serviceAccount
     \/ LET got == getServiceAccountForService(sourceNamespace, sourceService)
        IN  /\ reads' = << Read("pods", sourceNamespace, TRUE) >>
            /\ IF got.err # ""
               THEN /\ result' = ErrorResult(got.err)
                    /\ pc' = "done"
                    /\ UNCHANGED serviceAccount
               ELSE /\ serviceAccount' = got.serviceAccount
                    /\ pc' = "findAllowedTargets"
                    /\ UNCHANGED result
  /\ UNCHANGED << cluster, report, serverList, idx, allowedTargets, matchingServers >>

(***************************************************************************)
(* findAllowedTargets: the list of all Servers; an error ends the call.    *)
(***************************************************************************)
ListServers ==
  /\ pc = "findAllowedTargets"
  /\ \/ \E e \in ErrorTexts :
          /\ reads' = Append(reads, Read("servers", "", FALSE))
          /\ result' = ErrorResult("failed to list Servers: " \o e
                                   \o " (ensure Linkerd policy CRDs are installed)")
          /\ pc' = "done"
          /\ UNCHANGED << serverList, idx, allowedTargets >>
     \/ /\ reads' = Append(reads, Read("servers", "", TRUE))
        /\ serverList' = servers
        /\ idx' = 1
        /\ allowedTargets' = <<>>
        /\ pc' = "forEachServer"
        /\ UNCHANGED result
  /\ UNCHANGED << cluster, report, call, serviceAccount, matchingServers >>

\* variant: a failed policy list ends the call with the error
ForEachServerAbort ==
  /\ pc = "forEachServer"
  /\ idx <= Len(serverList)
  /\ LET server == serverList[idx]
     IN  \/ \E e \in ErrorTexts :
              /\ reads' = Append(reads, Read("authorizationpolicies", server.namespace, FALSE))
              /\ result' = ErrorResult("failed to list AuthorizationPolicies: " \o e)
              /\ pc' = "done"
              /\ UNCHANGED allowedTargets
         \/ /\ reads' = Append(reads, Read("authorizationpolicies", server.namespace, TRUE))
            /\ allowedTargets' = allowedTargets \o
                  targetsOfServer(server, ListIn(policies, server.namespace), 1,
                                  call.namespace, serviceAccount)
            /\ UNCHANGED << pc, result >>
  /\ idx' = idx + 1
  /\ UNCHANGED << cluster, report, call, serviceAccount, serverList, matchingServers >>

(***************************************************************************)
(* findAllowedTargets: one iteration of the loop over serverList.Items.    *)
(* A failed policy list is logged and the Server skipped.                  *)
(***************************************************************************)
ForEachServer ==
  /\ pc = "forEachServer"
  /\ idx <= Len(serverList)
  /\ LET server == serverList[idx]
     IN  \/ /\ reads' = Append(reads, Read("authorizationpolicies", server.namespace, FALSE))
            /\ UNCHANGED allowedTargets
         \/ /\ reads' = Append(reads, Read("authorizationpolicies", server.namespace, TRUE))
            /\ allowedTargets' = allowedTargets \o
                  targetsOfServer(server, ListIn(policies, server.namespace), 1,
                                  call.namespace, serviceAccount)
  /\ idx' = idx + 1
  /\ UNCHANGED << cluster, report, pc, call, serviceAccount, serverList, matchingServers, result >>

(***************************************************************************)
(* GetAllowedTargets: the loop is over; the result is built.               *)
(***************************************************************************)
ReturnAllowedTargets ==
  /\ pc = "forEachServer"
  /\ idx > Len(serverList)
  /\ result' = JSONResult([source |-> [namespace |-> call.namespace,
                                       service |-> call.service,
                                       serviceAccount |-> serviceAccount],
                           allowedTargets |-> allowedTargets,
                           totalTargets |-> Len(allowedTargets)])
  /\ pc' = "done"
  /\ UNCHANGED << cluster, report, call, serviceAccount, serverList, idx, allowedTargets,
                  matchingServers, reads >>


(***************************************************************************)
(* sources.go                                                              *)
(***************************************************************************)
\* a Go map: a function from its keys; m[key] = value
EmptyMap == [k \in {} |-> k]
mapSet(m, key, value) == [k \in DOMAIN m \cup {key} |-> IF k = key THEN value ELSE m[k]]
mapMerge(m, sources) ==
  [k \in DOMAIN m \cup DOMAIN sources |-> IF k \in DOMAIN sources THEN sources[k] ELSE m[k]]
\* the values of a map, collected into a slice in map order (unordered)
mapValues(m) ==
  LET values == { m[k] : k \in DOMAIN m }
  IN  [v \in values |-> Cardinality({ k \in DOMAIN m : m[k] = v })]

RECURSIVE matchingNames(_, _, _)
matchingNames(items, k, service) ==
  IF k > Len(items) THEN <<>>
  ELSE LET server == items[k]
           rest == matchingNames(items, k + 1, service)
       IN  IF ~Found(server.podSelector) THEN rest
           ELSE IF ~Found(Value(server.podSelector).matchLabels) THEN rest
           ELSE IF HasLabel(Value(Value(server.podSelector).matchLabels), "app", service)
                THEN << server.name >> \o rest
                ELSE rest

\* variant: any label with the value of the service matches
findServersForServiceAnyLabel(items, service) ==
  LET hit(server) == /\ Found(server.podSelector)
                     /\ Found(Value(server.podSelector).matchLabels)
                     /\ \E l \in Value(Value(server.podSelector).matchLabels) : l[2] = service
      chosen == SelectSeq(items, hit)
  IN  [k \in 1..Len(chosen) |-> chosen[k].name]

\* the names of the listed Servers that select the pods labelled app=service
findServersForService(items, service) == matchingNames(items, 1, service)

RECURSIVE putIdentities(_, _, _, _, _)
putIdentities(sources, identities, k, authName, policyName) ==
  IF k > Len(identities) THEN sources
  ELSE LET identityStr == identities[k]
           next == IF identityStr = "*"
                   THEN mapSet(sources, "all-authenticated",
                               [type |-> "wildcard",
                                description |-> "All authenticated services",
                                authenticationPolicy |-> authName,
                                authorizationPolicy |-> policyName])
                   ELSE mapSet(sources, identityStr,
                               [identity |-> identityStr,
                                authenticationPolicy |-> authName,
                                authorizationPolicy |-> policyName])
       IN  putIdentities(next, identities, k + 1, authName, policyName)

RECURSIVE putServiceAccounts(_, _, _, _, _, _)
putServiceAccounts(sources, serviceAccounts, k, namespace, authName, policyName) ==
  IF k > Len(serviceAccounts) THEN sources
  ELSE LET saName == serviceAccounts[k].name
           saNamespace == IF serviceAccounts[k].namespace = "" THEN namespace
                          ELSE serviceAccounts[k].namespace
           next == mapSet(sources, saNamespace \o "/" \o saName,
                          [serviceAccount |-> saName,
                           namespace |-> saNamespace,
                           authenticationPolicy |-> authName,
                           authorizationPolicy |-> policyName])
       IN  putServiceAccounts(next, serviceAccounts, k + 1, namespace, authName, policyName)

RECURSIVE putNetworks(_, _, _, _, _)
putNetworks(sources, networks, k, authName, policyName) ==
  IF k > Len(networks) THEN sources
  ELSE LET next == mapSet(sources, "network-" \o networks[k].cidr,
                          [type |-> "network",
                           cidr |-> networks[k].cidr,
                           except |-> networks[k].except,
                           authenticationPolicy |-> authName,
                           authorizationPolicy |-> policyName])
       IN  putNetworks(next, networks, k + 1, authName, policyName)

\* variant: the namespace of a service account is not defaulted
extractSourcesFromAuthNoDefault(namespace, authName, authKind, policyName) ==
  IF authKind \notin {MeshTLS, Network} THEN EmptyMap
  ELSE LET resource == IF authKind = MeshTLS THEN "meshtlsauthentications"
                       ELSE "networkauthentications"
           got == Get(resource, namespace, authName)
       IN  IF got = {} THEN EmptyMap
           ELSE LET auth == CHOOSE a \in got : TRUE
                    withIdentities == putIdentities(EmptyMap, auth.identities, 1, authName, policyName)
                    withAccounts == putServiceAccounts(withIdentities, auth.serviceAccounts, 1,
                                                       "", authName, policyName)
                IN  putNetworks(withAccounts, auth.networks, 1, authName, policyName)

\* the sources of one authentication reference, keyed
extractSourcesFromAuth(namespace, authName, authKind, policyName) ==
  IF authKind \notin {MeshTLS, Network} THEN EmptyMap
  ELSE LET resource == IF authKind = MeshTLS THEN "meshtlsauthentications"
                       ELSE "networkauthentications"
           got == Get(resource, namespace, authName)
       IN  IF got = {} THEN EmptyMap
           ELSE LET auth == CHOOSE a \in got : TRUE
                    withIdentities == putIdentities(EmptyMap, auth.identities, 1, authName, policyName)
                    withAccounts == putServiceAccounts(withIdentities, auth.serviceAccounts, 1,
                                                       namespace, authName, policyName)
                IN  putNetworks(withAccounts, auth.networks, 1, authName, policyName)

\* the loop over requiredAuths of one policy
RECURSIVE sourcesOfRefs(_, _, _, _, _)
sourcesOfRefs(sourcesMap, requiredAuths, k, namespace, policyName) ==
  IF k > Len(requiredAuths) THEN sourcesMap
  ELSE sourcesOfRefs(mapMerge(sourcesMap,
                              extractSourcesFromAuth(namespace, requiredAuths[k].name,
                                                     requiredAuths[k].kind, policyName)),
                     requiredAuths, k + 1, namespace, policyName)

\* the loop over authPolicies.Items
RECURSIVE sourcesOfPolicies(_, _, _, _, _)
sourcesOfPolicies(sourcesMap, authPolicies, k, namespace, matching) ==
  IF k > Len(authPolicies) THEN sourcesMap
  ELSE LET policy == authPolicies[k]
           isMatchingServer == /\ Found(policy.targetRef)
                               /\ \E n \in 1..Len(matching) :
                                     Value(policy.targetRef).name = matching[n]
           next == IF isMatchingServer /\ Found(policy.requiredAuthenticationRefs)
                   THEN sourcesOfRefs(sourcesMap, Value(policy.requiredAuthenticationRefs), 1,
                                      namespace, policy.name)
                   ELSE sourcesMap
       IN  sourcesOfPolicies(next, authPolicies, k + 1, namespace, matching)

\* the same loops appending every source to the slice, without the map
RECURSIVE findAllowedSourcesNoMap(_, _, _)
findAllowedSourcesNoMap(namespace, matching, authPolicies) ==
  IF Len(authPolicies) = 0 THEN EmptyBag
  ELSE mapValues(sourcesOfPolicies(EmptyMap, << Head(authPolicies) >>, 1, namespace, matching))
       (+) findAllowedSourcesNoMap(namespace, matching, Tail(authPolicies))

findAllowedSources(namespace, matching, authPolicies) ==
  mapValues(sourcesOfPolicies(EmptyMap, authPolicies, 1, namespace, matching))

\* variant: with no matching Server the call goes on to the policies
GetAllowedSourcesNoShortcut(targetNamespace, targetService) ==
  /\ pc = "idle"
  /\ call' = [op |-> "GetAllowedSources", namespace |-> targetNamespace, service |-> targetService]
  /\ \/ \E e \in ErrorTexts :
          /\ reads' = << Read("servers", targetNamespace, FALSE) >>
          /\ result' = ErrorResult("failed to list Servers: " \o e
                                   \o " (ensure Linkerd policy CRDs are installed)")
          /\ pc' = "done"
          /\ UNCHANGED matchingServers
     \/ /\ reads' = << Read("servers", targetNamespace, TRUE) >>
        /\ matchingServers' = findServersForService(ListIn(servers, targetNamespace), targetService)
        /\ pc' = "findAllowedSources"
        /\ UNCHANGED result
  /\ UNCHANGED << cluster, report, serviceAccount, serverList, idx, allowedTargets >>

(***************************************************************************)
(* GetAllowedSources: findServersForService; an error or no matching       *)
(* Server ends the call.                                                   *)
(***************************************************************************)
GetAllowedSources(targetNamespace, targetService) ==
  /\ pc = "idle"
  /\ call' = [op |-> "GetAllowedSources", namespace |-> targetNamespace, service |-> targetService]
  /\ \/ \E e \in ErrorTexts :
          /\ reads' = << Read("servers", targetNamespace, FALSE) >>
          /\ result' = ErrorResult("failed to list Servers: " \o e
                                   \o " (ensure Linkerd policy CRDs are installed)")
          /\ pc' = "done"
          /\ UNCHANGED matchingServers
     \/ LET found == findServersForService(ListIn(servers, targetNamespace), targetService)
        IN  /\ reads' = << Read("servers", targetNamespace, TRUE) >>
            /\ matchingServers' = found
            /\ IF Len(found) = 0
               THEN /\ result' = TextResult("No Linkerd Servers found for service " \o targetService
                                            \o " in namespace " \o targetNamespace)
                    /\ pc' = "done"
               ELSE /\ pc' = "findAllowedSources"
                    /\ UNCHANGED result
  /\ UNCHANGED << cluster, report, serviceAccount, serverList, idx, allowedTargets >>

(***************************************************************************)
(* GetAllowedSources: findAllowedSources and the result.                   *)
(***************************************************************************)
FindAllowedSources ==
  /\ pc = "findAllowedSources"
  /\ \/ \E e \in ErrorTexts :
          /\ reads' = Append(reads, Read("authorizationpolicies", call.namespace, FALSE))
          /\ result' = ErrorResult("failed to list AuthorizationPolicies: " \o e)
     \/ LET allowedSources == findAllowedSources(call.namespace, matchingServers,
                                                 ListIn(policies, call.namespace))
        IN  /\ reads' = Append(reads, Read("authorizationpolicies", call.namespace, TRUE))
            /\ result' = JSONResult([target |-> [namespace |-> call.namespace,
                                                 service |-> call.service],
                                     matchingServers |-> matchingServers,
                                     allowedSources |-> allowedSources,
                                     totalSources |-> BagCardinality(allowedSources)])
  /\ pc' = "done"
  /\ UNCHANGED << cluster, report, call, serviceAccount, serverList, idx, allowedTargets, matchingServers >>

(***************************************************************************)
(* The result is handed to the caller; nothing of the call is kept.        *)
(***************************************************************************)
Return ==
  /\ pc = "done"
  /\ pc' = "idle"
  /\ call' = Idle
  /\ serviceAccount' = ""
  /\ serverList' = <<>>
  /\ idx' = 0
  /\ allowedTargets' = <<>>
  /\ matchingServers' = <<>>
  /\ report' = NewReport
  /\ reads' = <<>>
  /\ result' = NoResult
  /\ UNCHANGED cluster

Next ==
  \/ \E ns \in Namespaces, svc \in SourceWorkloads : GetAllowedTargets(ns, svc)
  \/ ListServers
  \/ ForEachServer
  \/ ReturnAllowedTargets
  \/ \E ns \in Namespaces, svc \in TargetWorkloads : GetAllowedSources(ns, svc)
  \/ FindAllowedSources
  \/ Return

Spec == Init /\ [][Next]_vars

(***************************************************************************)
(* The tool handlers pass an absent argument as the empty string: the      *)
(* analyzer called with every combination of present and absent            *)
(* identifiers.                                                            *)
(***************************************************************************)
NextInputs ==
  \/ \E ns \in Namespaces \cup {""}, svc \in SourceWorkloads \cup {""} : GetAllowedTargets(ns, svc)
  \/ ListServers
  \/ ForEachServer
  \/ ReturnAllowedTargets
  \/ \E ns \in Namespaces \cup {""}, svc \in TargetWorkloads \cup {""} : GetAllowedSources(ns, svc)
  \/ FindAllowedSources
  \/ Return

SpecInputs == Init /\ [][NextInputs]_vars

(***************************************************************************)
(* AnalyzeConnectivity: the target namespace defaults to the source        *)
(* namespace; the analysis is built from the arguments alone, with no read *)
(* of the Object Source.                                                   *)
(***************************************************************************)
AnalyzeConnectivity(sourceNamespace, sourceService, targetNamespaceArg, targetService) ==
  /\ pc = "idle"
  /\ call' = [op |-> "AnalyzeConnectivity", namespace |-> sourceNamespace, service |-> sourceService,
              targetNamespace |-> targetNamespaceArg, targetService |-> targetService]
  /\ LET targetNamespace == IF targetNamespaceArg = "" THEN sourceNamespace ELSE targetNamespaceArg
     IN  result' = JSONResult([source |-> [namespace |-> sourceNamespace, service |-> sourceService],
                              target |-> [namespace |-> targetNamespace, service |-> targetService],
                              allowed |-> TRUE,
                              policies |-> <<>>,
                              explanation |-> "Policy analysis implementation pending - requires Linkerd CRD integration"])
  /\ reads' = <<>>
  /\ pc' = "done"
  /\ UNCHANGED << cluster, report, serviceAccount, serverList, idx, allowedTargets, matchingServers >>

NextConnectivity ==
  \/ \E sns \in Namespaces, ssvc \in SourceWorkloads, tns \in Namespaces \cup {""}, tsvc \in TargetWorkloads :
        AnalyzeConnectivity(sns, ssvc, tns, tsvc)
  \/ Return

SpecConnectivity == Init /\ [][NextConnectivity]_vars


(***************************************************************************)
(* Vocabulary of the properties.  These definitions restate the object     *)
(* graph declaratively; they do not use the operators of the analyzer.     *)
(***************************************************************************)
ServiceAccounts == {"frontend-sa", "other-sa", "default"}
Range(seq) == { seq[k] : k \in 1..Len(seq) }
Finished(op) == pc = "done" /\ call.op = op
HasBody == Found(result.body)
Body == Value(result.body)

NoRefs(policy) ==
  \/ ~Found(policy.requiredAuthenticationRefs)
  \/ Value(policy.requiredAuthenticationRefs) = <<>>
RefsOf(policy) ==
  IF Found(policy.requiredAuthenticationRefs)
  THEN Range(Value(policy.requiredAuthenticationRefs)) ELSE {}
Targets(policy, server) ==
  /\ policy.namespace = server.namespace
  /\ Found(policy.targetRef)
  /\ Value(policy.targetRef).name = server.name
Names(descriptor, server, policy) ==
  /\ descriptor.namespace = server.namespace
  /\ descriptor.server = server.name
  /\ descriptor.authorizationPolicy = policy.name
Describable(server) ==
  /\ Found(server.podSelector)
  /\ Found(Value(server.podSelector).matchLabels)
  /\ Found(server.port)
ResourceOf(kind) ==
  IF kind = MeshTLS THEN {"meshtlsauthentications"}
  ELSE IF kind = Network THEN {"networkauthentications"} ELSE {}
\* the authentication objects a reference denotes in a namespace
Resolves(ref, namespace) ==
  { a \in auths : a.resource \in ResourceOf(ref.kind) /\ a.namespace = namespace /\ a.name = ref.name }
\* the object grants the identity of the source
Grants(auth, sourceNamespace, account) ==
  \/ "*" \in Range(auth.identities)
  \/ (account \o "." \o sourceNamespace \o TrustSuffix) \in Range(auth.identities)
  \/ \E sa \in Range(auth.serviceAccounts) :
        /\ sa.name = account
        /\ sourceNamespace = (IF sa.namespace = "" THEN auth.namespace ELSE sa.namespace)
Authorizes(policy, server, sourceNamespace, account) ==
  /\ Targets(policy, server)
  /\ \E ref \in RefsOf(policy) : \E a \in Resolves(ref, server.namespace) :
        Grants(a, sourceNamespace, account)
\* the k-th Server of the list was skipped: its policy list failed
Skipped(k) == Len(reads) >= k + 2 /\ ~reads[k + 2].ok
AllReadsOk == \A k \in 1..Len(reads) : reads[k].ok
SourceHasPod == \E k \in 1..Len(pods) : pods[k].namespace = call.namespace /\ pods[k].app = call.service

C2_CompleteForEveryServer ==
  (Finished("GetAllowedTargets") /\ SourceHasPod /\ AllReadsOk) =>
     /\ HasBody
     /\ \A server \in Range(servers), policy \in Range(policies) :
           ( /\ Targets(policy, server)
             /\ checkSourceAllowed(policy, server.namespace, call.namespace, serviceAccount) )
           => \E d \in Range(Body.allowedTargets) : Names(d, server, policy)

(***************************************************************************)
(* C2 (restricted)  Forward resolution is complete for the Servers it can  *)
(* describe: every non-error result of GetAllowedTargets holds a           *)
(* descriptor for every Server S that carries spec.podSelector.matchLabels *)
(* and spec.port and whose policy list succeeded, and every policy P of    *)
(* S's namespace that targets S and for which checkSourceAllowed is true.  *)
(***************************************************************************)
C2_CompleteForDescribableServers ==
  (Finished("GetAllowedTargets") /\ HasBody) =>
     \A k \in 1..Len(servers) : \A policy \in Range(policies) :
        ( /\ Describable(servers[k])
          /\ ~Skipped(k)
          /\ Targets(policy, servers[k])
          /\ checkSourceAllowed(policy, servers[k].namespace, call.namespace, serviceAccount) )
        => \E d \in Range(Body.allowedTargets) : Names(d, servers[k], policy)

\* a result with two descriptors of one Server, authorized by two policies
C2_Witness ==
  /\ Finished("GetAllowedTargets") /\ HasBody
  /\ \E server \in Range(servers) : \E p, q \in Range(policies) :
        /\ p # q
        /\ \E d \in Range(Body.allowedTargets) : Names(d, server, p)
        /\ \E d \in Range(Body.allowedTargets) : Names(d, server, q)

(***************************************************************************)
(* C3  Forward resolution is sound: every descriptor of a result names a   *)
(* Server S and a policy P of S's namespace with P.targetRef.name =        *)
(* S.name, one of whose references resolves in S's namespace to an object  *)
(* that grants the source; a policy whose targetRef.name names no Server   *)
(* of its namespace is named by no descriptor.                             *)
(***************************************************************************)
C3_ForwardSound ==
  (Finished("GetAllowedTargets") /\ HasBody) =>
     /\ \A d \in Range(Body.allowedTargets) :
           \E server \in Range(servers), policy \in Range(policies) :
              /\ Names(d, server, policy)
              /\ Authorizes(policy, server, call.namespace, Body.source.serviceAccount)
     /\ \A policy \in Range(policies) :
           (~\E server \in Range(servers) : Targets(policy, server))
           => ~\E d \in Range(Body.allowedTargets) :
                  d.namespace = policy.namespace /\ d.authorizationPolicy = policy.name

\* a result with a descriptor, over a cluster holding a policy whose target
\* is no Server and that would otherwise authorize the source
C3_Witness ==
  /\ Finished("GetAllowedTargets") /\ HasBody
  /\ Len(Body.allowedTargets) > 0
  /\ \E policy \in Range(policies) :
        /\ Found(policy.targetRef)
        /\ ~\E server \in Range(servers) : Targets(policy, server)
        /\ \E server \in Range(servers) :
              /\ server.namespace = policy.namespace
              /\ checkSourceAllowed(policy, server.namespace, call.namespace, serviceAccount)


(***************************************************************************)
(* C4  NetworkAuthentication never authorizes a forward lookup: a policy   *)
(* all of whose references are of kind NetworkAuthentication, to objects   *)
(* carrying only a networks list, is authorized for no source and is named *)
(* by no descriptor of a result.                                           *)
(***************************************************************************)
NetworkOnly(policy) ==
  /\ RefsOf(policy) # {}
  /\ \A ref \in RefsOf(policy) :
        /\ ref.kind = Network
        /\ \A namespace \in Namespaces : \A a \in Resolves(ref, namespace) :
              a.identities = <<>> /\ a.serviceAccounts = <<>>

C4_NetworkNeverAuthorizes ==
  \A policy \in Range(policies) :
     NetworkOnly(policy) =>
        /\ \A serverNamespace \in Namespaces, sourceNamespace \in Namespaces, account \in ServiceAccounts :
              ~checkSourceAllowed(policy, serverNamespace, sourceNamespace, account)
        /\ (Finished("GetAllowedTargets") /\ HasBody) =>
              \A d \in Range(Body.allowedTargets) :
                 ~(d.namespace = policy.namespace /\ d.authorizationPolicy = policy.name)

\* a finished forward call over a cluster in which a network-only policy,
\* one reference of which resolves to an object with networks, targets a
\* Server that was listed and can be described
C4_Witness ==
  /\ Finished("GetAllowedTargets") /\ HasBody /\ AllReadsOk
  /\ \E server \in Range(servers), policy \in Range(policies) :
        /\ Describable(server)
        /\ Targets(policy, server)
        /\ NetworkOnly(policy)
        /\ \E ref \in RefsOf(policy) : \E a \in Resolves(ref, server.namespace) :
              Len(a.networks) > 0

(***************************************************************************)
(* C5  No pod, no result: when the pod list of GetAllowedTargets returns   *)
(* no pod labelled app=<workload>, the call ends in an error result whose  *)
(* text is "no pods found for service <workload> in namespace              *)
(* <namespace>", no Server or AuthorizationPolicy list is read and no      *)
(* target list is returned.                                                *)
(***************************************************************************)
C5_NoPodsIsTerminal ==
  (call.op = "GetAllowedTargets" /\ reads[1].ok /\ ~SourceHasPod) =>
     /\ pc = "done"
     /\ result.isError
     /\ result.text = "no pods found for service " \o call.service
                      \o " in namespace " \o call.namespace
     /\ ~HasBody
     /\ allowedTargets = <<>>
     /\ \A k \in 1..Len(reads) : reads[k].resource = "pods"

\* the call of the test: GetAllowedTargets("prod", "ghost"), while Servers
\* and policies exist
C5_Witness ==
  /\ Finished("GetAllowedTargets")
  /\ reads[1].ok /\ ~SourceHasPod
  /\ call.namespace = "prod"
  /\ servers # <<>> /\ policies # <<>>

(***************************************************************************)
(* Keys of the descriptors of GetAllowedSources, read off their fields.    *)
(***************************************************************************)
KeyOf(d) ==
  IF "identity" \in DOMAIN d THEN d.identity
  ELSE IF "serviceAccount" \in DOMAIN d THEN d.namespace \o "/" \o d.serviceAccount
  ELSE IF d.type = "wildcard" THEN "all-authenticated"
  ELSE "network-" \o d.cidr
Sources == BagToSet(Body.allowedSources)
\* the Servers of the target namespace that select app=<workload>
MatchingSet ==
  { server.name : server \in
      { s \in Range(servers) :
          /\ s.namespace = call.namespace
          /\ Found(s.podSelector)
          /\ Found(Value(s.podSelector).matchLabels)
          /\ \E l \in Value(Value(s.podSelector).matchLabels) :
                l[1] = "app" /\ l[2] = call.service } }
\* the references reverse resolution expands, with the objects they denote
Expanded ==
  { pa \in Range(policies) \X auths :
      /\ pa[1].namespace = call.namespace
      /\ Found(pa[1].targetRef)
      /\ Value(pa[1].targetRef).name \in MatchingSet
      /\ \E ref \in RefsOf(pa[1]) : pa[2] \in Resolves(ref, call.namespace) }

(***************************************************************************)
(* C6  The sources of a result are a set: every descriptor occurs once, no *)
(* two descriptors have the same key, and totalSources is the number of    *)
(* distinct keys.                                                          *)
(***************************************************************************)
C6_SourcesAreASet ==
  (Finished("GetAllowedSources") /\ HasBody) =>
     /\ \A d \in Sources : CopiesIn(d, Body.allowedSources) = 1
     /\ \A d, e \in Sources : KeyOf(d) = KeyOf(e) => d = e
     /\ Body.totalSources = Cardinality({ KeyOf(d) : d \in Sources })

\* a result over two policies that target a matching Server and expand to a
\* common key
C6_Witness ==
  /\ Finished("GetAllowedSources") /\ HasBody
  /\ \E pa, qb \in Expanded :
        /\ pa[1] # qb[1]
        /\ Range(pa[2].identities) \cap Range(qb[2].identities) # {}

(***************************************************************************)
(* C7  One wildcard descriptor: when a MeshTLSAuthentication referenced by *)
(* a policy that targets a matching Server lists the identity "*", the     *)
(* result holds exactly one descriptor with type = "wildcard".             *)
(***************************************************************************)
C7_WildcardAppearsOnce ==
  ( /\ Finished("GetAllowedSources") /\ HasBody
    /\ \E pa \in Expanded :
          pa[2].resource = "meshtlsauthentications" /\ "*" \in Range(pa[2].identities) )
  => Cardinality({ d \in Sources : "type" \in DOMAIN d /\ d.type = "wildcard" }) = 1

(***************************************************************************)
(* C8  Matching by the app label only: the names findServersForService     *)
(* returns are those of the Servers of the target namespace whose          *)
(* matchLabels hold app = <workload>, and no other; with none the call     *)
(* ends in the informational text, otherwise the result lists them.        *)
(***************************************************************************)
C8_MatchingByAppLabel ==
  (call.op = "GetAllowedSources" /\ reads[1].ok) =>
     /\ Range(matchingServers) = MatchingSet
     /\ MatchingSet = {} => (pc = "done" /\ ~HasBody /\ ~result.isError)
     /\ (pc = "done" /\ HasBody) => Range(Body.matchingServers) = MatchingSet

\* a result for a namespace that holds a matching Server and one that has
\* labels but not app = <workload>, while another namespace holds a Server
\* or the namespace a Server with an empty selector
C8_Witness ==
  /\ Finished("GetAllowedSources") /\ HasBody
  /\ \E s, t \in Range(servers) :
        /\ s.name \in MatchingSet /\ s.namespace = call.namespace
        /\ t.name \notin MatchingSet \/ t.namespace # call.namespace
        /\ s # t

(***************************************************************************)
(* C9  Reverse expansion: the keys of the descriptors of a result are      *)
(* exactly the keys of the entries of the authentication objects the       *)
(* policies of the target namespace that target a matching Server refer    *)
(* to: "all-authenticated" for "*", the identity string for another        *)
(* identity, "<namespace>/<name>" for a service account (the object's      *)
(* namespace when the entry has none), "network-<cidr>" for a network.     *)
(***************************************************************************)
KeysOfAuth(a) ==
  { (IF id = "*" THEN "all-authenticated" ELSE id) : id \in Range(a.identities) }
  \cup { (IF sa.namespace = "" THEN a.namespace ELSE sa.namespace) \o "/" \o sa.name :
           sa \in Range(a.serviceAccounts) }
  \cup { "network-" \o n.cidr : n \in Range(a.networks) }

C9_ReverseExpansion ==
  (Finished("GetAllowedSources") /\ HasBody) =>
     { KeyOf(d) : d \in Sources } = UNION { KeysOfAuth(pa[2]) : pa \in Expanded }

\* a result holding a wildcard, an identity, a defaulted service account and
\* a network
C9_Witness ==
  /\ Finished("GetAllowedSources") /\ HasBody
  /\ {"all-authenticated", "prod/frontend-sa", "admin/admin-sa", "network-10.0.0.0/8",
      "frontend-sa.prod" \o TrustSuffix} \subseteq { KeyOf(d) : d \in Sources }

(***************************************************************************)
(* The targets of a result as triples, and the triples the object graph    *)
(* authorizes for the Servers that were not skipped.                       *)
(***************************************************************************)
Triples(targets) ==
  { << d.namespace, d.server, d.authorizationPolicy >> : d \in Range(targets) }
AuthorizedTriples(skip(_)) ==
  { << servers[x[1]].namespace, servers[x[1]].name, x[2].name >> :
      x \in { y \in (1..Len(servers)) \X Range(policies) :
                 /\ ~skip(y[1])
                 /\ Describable(servers[y[1]])
                 /\ Authorizes(y[2], servers[y[1]], call.namespace, serviceAccount) } }
FailedNamespaces ==
  { reads[k].namespace : k \in { j \in 1..Len(reads) :
       reads[j].resource = "authorizationpolicies" /\ ~reads[j].ok } }
InFailedNamespace(k) == servers[k].namespace \in FailedNamespaces

(***************************************************************************)
(* C10 (as claimed)  Best effort by namespace: when the policy list of a   *)
(* namespace N fails during GetAllowedTargets the result is no error,      *)
(* holds no target of N, and holds exactly the targets of the other        *)
(* namespaces.                                                             *)
(***************************************************************************)
C10_SkipsTheNamespace ==
  (Finished("GetAllowedTargets") /\ FailedNamespaces # {}) =>
     /\ ~result.isError /\ HasBody
     /\ \A d \in Range(Body.allowedTargets) : d.namespace \notin FailedNamespaces
     /\ Triples(Body.allowedTargets) = AuthorizedTriples(InFailedNamespace)

(***************************************************************************)
(* C10 (amended)  Best effort by Server: when the policy list made for a   *)
(* Server S fails during GetAllowedTargets the result is no error, holds   *)
(* no target for S, and holds exactly the targets of the Servers whose     *)
(* list succeeded; a Server of the same namespace listed successfully      *)
(* still contributes.                                                      *)
(***************************************************************************)
C10_SkipsTheServer ==
  (Finished("GetAllowedTargets") /\ FailedNamespaces # {}) =>
     /\ ~result.isError /\ HasBody
     /\ \A k \in 1..Len(servers) : Skipped(k) =>
           \A d \in Range(Body.allowedTargets) :
              ~(d.namespace = servers[k].namespace /\ d.server = servers[k].name)
     /\ Triples(Body.allowedTargets) = AuthorizedTriples(Skipped)

\* a result after one list failed and one succeeded, with a target, over a
\* cluster in which the skipped Server would have been a target as well
C10_Witness ==
  /\ Finished("GetAllowedTargets") /\ HasBody
  /\ \E k \in 1..Len(servers) : Skipped(k)
  /\ Len(Body.allowedTargets) > 0
  /\ AuthorizedTriples(Skipped) # AuthorizedTriples(LAMBDA k : FALSE)

(***************************************************************************)
(* C11  A failed Server list counts as zero Servers: when the Server list  *)
(* of GetAllowedTargets or GetAllowedSources fails, the call returns the   *)
(* non-error result it returns when the scope holds no Server.             *)
(***************************************************************************)
ServerListFailed ==
  \E k \in 1..Len(reads) : reads[k].resource = "servers" /\ ~reads[k].ok
ZeroServersResult ==
  IF call.op = "GetAllowedSources"
  THEN TextResult("No Linkerd Servers found for service " \o call.service
                  \o " in namespace " \o call.namespace)
  ELSE JSONResult([source |-> [namespace |-> call.namespace,
                               service |-> call.service,
                               serviceAccount |-> serviceAccount],
                   allowedTargets |-> <<>>,
                   totalTargets |-> 0])

C11_ListFailureIsZeroServers ==
  (pc = "done" /\ ServerListFailed) =>
     /\ ~result.isError
     /\ result = ZeroServersResult

(***************************************************************************)
(* C12  No matching Server: when the Server list of GetAllowedSources      *)
(* succeeds and no Server of the target namespace selects app=<workload>,  *)
(* the call ends in a non-error result whose text is "No Linkerd Servers   *)
(* found for service <workload> in namespace <namespace>", and the Server  *)
(* list is the only read: no AuthorizationPolicy is listed and no          *)
(* authentication object expanded.                                         *)
(***************************************************************************)
C12_NoServersFound ==
  (call.op = "GetAllowedSources" /\ reads[1].ok /\ MatchingSet = {}) =>
     /\ pc = "done"
     /\ ~result.isError
     /\ ~HasBody
     /\ result.text = "No Linkerd Servers found for service " \o call.service
                      \o " in namespace " \o call.namespace
     /\ Len(reads) = 1
     /\ reads[1].resource = "servers"

\* the call of the test: GetAllowedSources("prod", "backend") with no
\* matching Server, over a cluster whose policies would expand to sources
C12_Witness ==
  /\ Finished("GetAllowedSources")
  /\ reads[1].ok /\ MatchingSet = {}
  /\ call.namespace = "prod" /\ call.service = "backend"
  /\ \E policy \in Range(policies) :
        /\ policy.namespace = "prod"
        /\ Found(policy.targetRef)
        /\ \E ref \in RefsOf(policy) : Resolves(ref, "prod") # {}


(***************************************************************************)
(* Configuration validation (internal/validation).  The objects are read   *)
(* as the validators read them: spec tells whether the object has a spec,  *)
(* an optional string field is present when it is in the DOMAIN of the     *)
(* record.  Every field holds a value of its declared type.                *)
(***************************************************************************)
ValidationNamespaces == {"", "prod", "dev"}
ResourceNames == {"", "backend-server"}
\* the values tried with every namespace, name and includeWarnings, and the
\* values tried with all namespaces only
ResourceTypes == {"server", "authpolicy", "meshtls", "proxy", "all"}
OtherResourceTypes ==
  {"", "authorizationpolicy", "meshtlsauthentication", "namespace", "Server", "networkauth"}

InjectKey == "linkerd.io/inject"
CPURequestKey == "config.linkerd.io/proxy-cpu-request"
CPULimitKey == "config.linkerd.io/proxy-cpu-limit"
MemoryRequestKey == "config.linkerd.io/proxy-memory-request"
MemoryLimitKey == "config.linkerd.io/proxy-memory-limit"
LogLevelKey == "config.linkerd.io/proxy-log-level"
ProxyVersionKey == "config.linkerd.io/proxy-version"
WaitBeforeExitKey == "config.alpha.linkerd.io/proxy-wait-before-exit-seconds"

\* the text of a quantity annotation: a decimal integer followed by a suffix;
\* Text is a value that does not start with a number
Quantity(n, suffix) == [number |-> << n >>, suffix |-> suffix]
Text(string) == [number |-> <<>>, suffix |-> string]
\* the text of a proxy version: <channel>-<numbers joined by dots>
Version(channel, numbers) == [channel |-> channel, numbers |-> numbers]
\* the text of an integer, and a text strconv.Atoi rejects
Seconds(n) == [seconds |-> << n >>]
NotAnInteger == [seconds |-> <<>>]
NoAnnotations == [k \in {} |-> k]

ServerShape(namespace, name, labels, port, proxyProtocol) ==
  [namespace |-> namespace, name |-> name, spec |-> TRUE,
   podSelector |-> labels, port |-> port, proxyProtocol |-> proxyProtocol]

(***************************************************************************)
(* Server objects the owner may have created, in list order.  A cluster    *)
(* holds at most MaxServers of them.                                       *)
(***************************************************************************)
ServerShapes ==
  << ServerShape("dev", "backend-server", Selector({<<"app", "backend">>}), <<8080>>, <<>>),
     ServerShape("prod", "api-server", Selector({<<"tier", "api">>}), <<8080>>, <<"HTTP/2">>),
     ServerShape("prod", "backend-server", Selector({<<"app", "backend">>}), <<8080>>, <<>>),
     ServerShape("prod", "backend-v2",
                 Selector({<<"app", "backend">>, <<"version", "v2">>}), <<8080>>, <<"gRPC">>),
     ServerShape("prod", "catch-all", Selector({}), <<8080>>, <<"http">>),
     ServerShape("staging", "bare", <<>>, <<>>, <<>>),
     ServerShape("staging", "metrics", Selector({<<"app", "metrics">>}), <<70000>>, <<>>),
     [namespace |-> "staging", name |-> "no-spec", spec |-> FALSE,
      podSelector |-> <<>>, port |-> <<>>, proxyProtocol |-> <<>>] >>

PolicyShape(namespace, name, targetRef, refs) ==
  [namespace |-> namespace, name |-> name, spec |-> TRUE,
   targetRef |-> targetRef, requiredAuthenticationRefs |-> refs]
RefIn(kind, name, namespace) == [kind |-> kind, name |-> name, namespace |-> namespace]

(***************************************************************************)
(* The AuthorizationPolicy objects of the validated cluster, in list       *)
(* order.                                                                  *)
(***************************************************************************)
PolicyShapes ==
  << PolicyShape("dev", "mixed", Target("backend-server"),
                 << << Ref(MeshTLS, "dev-auth"), Ref(MeshTLS, "missing-auth") >> >>),
     PolicyShape("prod", "allow-frontend", Target("backend-server"),
                 << << Ref(MeshTLS, "frontend-auth") >> >>),
     PolicyShape("prod", "allow-network", Target("backend-server"),
                 << << Ref(Network, "net-auth"), Ref(MeshTLS, "sa-auth") >> >>),
     PolicyShape("prod", "open", Target("backend-server"), << <<>> >>),
     PolicyShape("staging", "cross-namespace",
                 << RefIn("Server", "backend-server", "prod") >>,
                 << << RefIn(MeshTLS, "frontend-auth", "prod") >> >>),
     PolicyShape("staging", "dangling", Target("missing-server"),
                 << << Ref("Unknown", "frontend-auth"), Ref(MeshTLS, ""),
                       Ref(Network, "frontend-auth") >> >>),
     PolicyShape("staging", "no-refs", << [kind |-> "HTTPRoute", name |-> "backend-server"] >>, <<>>),
     [namespace |-> "staging", name |-> "no-spec", spec |-> FALSE,
      targetRef |-> <<>>, requiredAuthenticationRefs |-> <<>>],
     PolicyShape("staging", "no-target", <<>>, << << Ref(MeshTLS, "legacy-auth") >> >>),
     PolicyShape("staging", "unnamed-target", Target(""), << << Ref(MeshTLS, "legacy-auth") >> >>),
     PolicyShape("staging", "unrestricted", Target("metrics"), <<>>) >>

AuthShape(resource, namespace, name, identities, serviceAccounts, networks) ==
  [resource |-> resource, namespace |-> namespace, name |-> name, spec |-> TRUE,
   identities |-> identities, serviceAccounts |-> serviceAccounts, networks |-> networks]
Account(name, namespace) == [name |-> name, namespace |-> namespace]

(***************************************************************************)
(* The authentication objects of the validated cluster, in list order.     *)
(***************************************************************************)
AuthShapes ==
  << AuthShape("meshtlsauthentications", "dev", "dev-auth",
               << "frontend-sa.dev" \o TrustSuffix >>, << Account("frontend-sa", "") >>, <<>>),
     AuthShape("meshtlsauthentications", "prod", "all-auth", << "*" >>, <<>>, <<>>),
     AuthShape("meshtlsauthentications", "prod", "frontend-auth",
               << "frontend-sa.prod" \o TrustSuffix >>, <<>>, <<>>),
     AuthShape("meshtlsauthentications", "prod", "sa-auth",
               <<>>, << Account("frontend-sa", "prod"), Account("ghost-sa", "prod") >>, <<>>),
     AuthShape("networkauthentications", "prod", "net-auth",
               <<>>, <<>>, << [cidr |-> "10.0.0.0/8", except |-> <<>>] >>),
     AuthShape("meshtlsauthentications", "staging", "empty-auth", <<>>, <<>>, <<>>),
     AuthShape("meshtlsauthentications", "staging", "legacy-auth",
               << "prod/frontend-sa" >>,
               << Account("", "staging"), Account("frontend-sa", "staging") >>, <<>>),
     [resource |-> "meshtlsauthentications", namespace |-> "staging", name |-> "no-spec",
      spec |-> FALSE, identities |-> <<>>, serviceAccounts |-> <<>>, networks |-> <<>>] >>

AccountFixture == { <<"prod", "frontend-sa">>, <<"dev", "frontend-sa">> }


PodShape(namespace, name, labels, serviceAccountName, containers, annotations) ==
  [namespace |-> namespace, name |-> name,
   app |-> (CHOOSE l \in labels : l[1] = "app")[2], labels |-> labels,
   serviceAccountName |-> serviceAccountName,
   containers |-> containers, annotations |-> annotations]

(***************************************************************************)
(* The pods of the validated cluster, in list order.                       *)
(***************************************************************************)
PodShapes ==
  << PodShape("dev", "frontend-1", {<<"app", "frontend">>}, "frontend-sa", << "app" >>,
              (InjectKey :> "enabled") @@ (CPULimitKey :> Quantity(500, "m"))
              @@ (LogLevelKey :> "debug") @@ (ProxyVersionKey :> Version("latest", <<>>))
              @@ (WaitBeforeExitKey :> Seconds(600))),
     PodShape("prod", "backend-1",
              {<<"app", "backend">>, <<"tier", "api">>, <<"version", "v2">>}, "backend-sa",
              << "app", "linkerd-proxy" >>,
              (InjectKey :> "enabled") @@ (CPURequestKey :> Quantity(100, "m"))
              @@ (CPULimitKey :> Quantity(1, "")) @@ (MemoryRequestKey :> Quantity(64, "Mi"))
              @@ (MemoryLimitKey :> Quantity(128, "Mi")) @@ (LogLevelKey :> "info")
              @@ (ProxyVersionKey :> Version("stable", <<2, 14, 0>>))
              @@ (WaitBeforeExitKey :> Seconds(30))),
     PodShape("prod", "frontend-1", {<<"app", "frontend">>}, "frontend-sa",
              << "app", "linkerd-proxy" >>, NoAnnotations),
     PodShape("staging", "broken-1", {<<"app", "broken">>}, "", << "app" >>,
              (InjectKey :> "true") @@ (CPURequestKey :> Text("abc"))
              @@ (CPULimitKey :> Quantity(50, "m")) @@ (MemoryRequestKey :> Quantity(128, "Mi"))
              @@ (MemoryLimitKey :> Quantity(64, "Mi")) @@ (LogLevelKey :> "verbose")
              @@ (WaitBeforeExitKey :> Seconds(-5))),
     PodShape("staging", "broken-2", {<<"app", "broken">>}, "", << "app" >>,
              (InjectKey :> "disabled") @@ (CPURequestKey :> Quantity(200, "m"))
              @@ (CPULimitKey :> Quantity(100, "m")) @@ (MemoryRequestKey :> Text("lots"))
              @@ (MemoryLimitKey :> Quantity(1, "Ti"))
              @@ (WaitBeforeExitKey :> NotAnInteger)) >>

(***************************************************************************)
(* The Namespace objects of the validated cluster, in list order.          *)
(***************************************************************************)
NamespaceShapes ==
  << [name |-> "dev", annotations |-> NoAnnotations],
     [name |-> "prod", annotations |-> (InjectKey :> "enabled") @@ (LogLevelKey :> "warn")],
     [name |-> "staging",
      annotations |-> (InjectKey :> "ingress") @@ (CPULimitKey :> Text("two"))
                      @@ (MemoryLimitKey :> Quantity(128, "Mi"))
                      @@ (LogLevelKey :> "trace")] >>


(***************************************************************************)
(* types.go                                                                *)
(***************************************************************************)
SeverityError == "error"
SeverityWarning == "warning"
SeverityInfo == "info"

\* an Issue, without its field and remediation texts
Issue(severity, message, code) == [severity |-> severity, message |-> message, code |-> code]
NewResult(resourceType, object) ==
  [resourceType |-> resourceType, name |-> object.name, namespace |-> object.namespace,
   valid |-> FALSE, issues |-> <<>>]

\* variant: a warning makes the result invalid as well
FinalizeStrict(vr) ==
  [vr EXCEPT !.valid = \A k \in 1..Len(vr.issues) : vr.issues[k].severity = SeverityInfo]

\* ValidationResult.Finalize
Finalize(vr) ==
  [vr EXCEPT !.valid = ~\E k \in 1..Len(vr.issues) : vr.issues[k].severity = SeverityError]

CountSeverity(issues, severity) ==
  Cardinality({ k \in 1..Len(issues) : issues[k].severity = severity })

\* variant: only the valid results are counted
AddResultCountingValid(cvr, vr) ==
  [totalResources |-> cvr.totalResources + (IF vr.valid THEN 1 ELSE 0),
   validResources |-> cvr.validResources + (IF vr.valid THEN 1 ELSE 0),
   results |-> Append(cvr.results, vr),
   summary |-> [errors |-> cvr.summary.errors + CountSeverity(vr.issues, SeverityError),
                warnings |-> cvr.summary.warnings + CountSeverity(vr.issues, SeverityWarning),
                info |-> cvr.summary.info + CountSeverity(vr.issues, SeverityInfo)]]

\* ClusterValidationReport.AddResult
AddResult(cvr, vr) ==
  [totalResources |-> cvr.totalResources + 1,
   validResources |-> cvr.validResources + (IF vr.valid THEN 1 ELSE 0),
   results |-> Append(cvr.results, vr),
   summary |-> [errors |-> cvr.summary.errors + CountSeverity(vr.issues, SeverityError),
                warnings |-> cvr.summary.warnings + CountSeverity(vr.issues, SeverityWarning),
                info |-> cvr.summary.info + CountSeverity(vr.issues, SeverityInfo)]]

(***************************************************************************)
(* server.go (validators)                                                  *)
(***************************************************************************)
\* unstructured.NestedStringMap(podSelector, "matchLabels") and
\* unstructured.NestedInt64(spec, "port"): the zero value when not found
matchLabelsOf(server) ==
  IF server.spec /\ Found(server.podSelector) /\ Found(Value(server.podSelector).matchLabels)
  THEN Value(Value(server.podSelector).matchLabels) ELSE {}
portOf(server) == IF server.spec /\ Found(server.port) THEN Value(server.port) ELSE 0

\* the pod list by label selector reads pods: the selector is not empty
ListsPods(server) == server.spec /\ Found(server.podSelector) /\ matchLabelsOf(server) # {}

validatePodSelector(server, podsOk) ==
  IF ~Found(server.podSelector)
  THEN << Issue(SeverityError, "Missing podSelector", "LNKD-002") >>
  ELSE IF matchLabelsOf(server) = {}
  THEN << Issue(SeverityWarning, "Empty podSelector will match all pods", "LNKD-003") >>
  ELSE IF podsOk /\ ~\E k \in 1..Len(pods) :
                       /\ pods[k].namespace = server.namespace
                       /\ matchLabelsOf(server) \subseteq pods[k].labels
  THEN << Issue(SeverityWarning, "No pods match the podSelector", "LNKD-004") >>
  ELSE <<>>

validatePort(server) ==
  IF ~Found(server.port)
  THEN << Issue(SeverityError, "Missing port specification", "LNKD-005") >>
  ELSE IF Value(server.port) < 1 \/ Value(server.port) > 65535
  THEN << Issue(SeverityError,
                "Invalid port " \o ToString(Value(server.port)) \o ", must be between 1-65535",
                "LNKD-006") >>
  ELSE <<>>

validProtocols == {"unknown", "HTTP/1", "HTTP/2", "gRPC", "opaque", "TLS"}

\* variant: a Server without proxyProtocol is an error
validateProxyProtocolRequired(server) ==
  IF ~Found(server.proxyProtocol) \/ Value(server.proxyProtocol) \notin validProtocols
  THEN << Issue(SeverityError, "Invalid proxyProtocol", "LNKD-007") >>
  ELSE <<>>

validateProxyProtocol(server) ==
  IF Found(server.proxyProtocol) /\ Value(server.proxyProtocol) \notin validProtocols
  THEN << Issue(SeverityError,
                "Invalid proxyProtocol '" \o Value(server.proxyProtocol)
                \o "', must be one of: unknown, HTTP/1, HTTP/2, gRPC, opaque, TLS",
                "LNKD-007") >>
  ELSE <<>>

\* variant: the first selector overlaps the second when all its labels match
labelsOverlapOneWay(labels1, labels2) ==
  \/ labels1 = {}
  \/ labels1 \subseteq labels2

labelsOverlap(labels1, labels2) ==
  \/ labels1 = {}
  \/ labels2 = {}
  \/ \E l \in labels1 : l \in labels2

\* the loop over servers.Items
RECURSIVE conflictsWith(_, _, _)
conflictsWith(server, others, k) ==
  IF k > Len(others) THEN <<>>
  ELSE LET otherServer == others[k]
           rest == conflictsWith(server, others, k + 1)
       IN  IF otherServer.name = server.name THEN rest
           ELSE IF /\ portOf(server) = portOf(otherServer)
                   /\ labelsOverlap(matchLabelsOf(server), matchLabelsOf(otherServer))
           THEN << Issue(SeverityError,
                         "Conflicts with Server '" \o otherServer.name \o "' on port "
                         \o ToString(portOf(server)),
                         "LNKD-008") >> \o rest
           ELSE rest

checkConflicts(server, conflictsOk) ==
  IF ~conflictsOk THEN <<>>
  ELSE conflictsWith(server, ListIn(servers, server.namespace), 1)

\* ServerValidator.Validate; podsOk and conflictsOk tell whether the pod
\* list and the Server list made for this Server succeed
ValidateServer(server, podsOk, conflictsOk) ==
  LET vr == NewResult("Server", server)
  IN  IF ~server.spec
      THEN Finalize([vr EXCEPT
                       !.issues = << Issue(SeverityError, "Missing or invalid spec", "LNKD-001") >>])
      ELSE Finalize([vr EXCEPT
                       !.issues = validatePodSelector(server, podsOk) \o validatePort(server)
                                  \o validateProxyProtocol(server)
                                  \o checkConflicts(server, conflictsOk)])


(***************************************************************************)
(* authpolicy.go                                                           *)
(***************************************************************************)
\* unstructured.NestedString(ref, "namespace"): the default when not found
namespaceOf(ref, default) == IF "namespace" \in DOMAIN ref THEN ref.namespace ELSE default
\* dynamicClient.Resource(gvr).Namespace(namespace).Get(name) returns no error
ServerExists(namespace, name) ==
  \E k \in 1..Len(servers) : servers[k].namespace = namespace /\ servers[k].name = name
AuthExists(resource, namespace, name) ==
  \E a \in auths : a.resource = resource /\ a.namespace = namespace /\ a.name = name

validateTargetRef(policy) ==
  IF ~Found(policy.targetRef)
  THEN << Issue(SeverityError, "Missing targetRef", "LNKD-010") >>
  ELSE LET targetRef == Value(policy.targetRef)
           targetNamespace == namespaceOf(targetRef, policy.namespace)
       IN  IF targetRef.kind # "Server"
           THEN << Issue(SeverityError,
                         "Invalid targetRef.kind '" \o targetRef.kind \o "', must be 'Server'",
                         "LNKD-011") >>
           ELSE IF targetRef.name = ""
           THEN << Issue(SeverityError, "Missing targetRef.name", "LNKD-012") >>
           ELSE IF ~ServerExists(targetNamespace, targetRef.name)
           THEN << Issue(SeverityError,
                         "Target Server '" \o targetRef.name \o "' does not exist in namespace '"
                         \o targetNamespace \o "'",
                         "LNKD-013") >>
           ELSE <<>>

\* index is the position in the slice, counted from 0
validateAuthRef(policy, ref, index) ==
  LET refNamespace == namespaceOf(ref, policy.namespace)
  IN  IF ref.name = ""
      THEN << Issue(SeverityError,
                    "Missing name in authentication ref at index " \o ToString(index),
                    "LNKD-017") >>
      ELSE IF ref.kind \notin {MeshTLS, Network}
      THEN << Issue(SeverityError,
                    "Invalid authentication kind '" \o ref.kind \o "' at index " \o ToString(index)
                    \o ", must be 'MeshTLSAuthentication' or 'NetworkAuthentication'",
                    "LNKD-018") >>
      ELSE IF ~AuthExists(IF ref.kind = MeshTLS THEN "meshtlsauthentications"
                          ELSE "networkauthentications", refNamespace, ref.name)
      THEN << Issue(SeverityError,
                    ref.kind \o " '" \o ref.name \o "' does not exist in namespace '"
                    \o refNamespace \o "'",
                    "LNKD-019") >>
      ELSE <<>>

RECURSIVE authRefIssues(_, _, _)
authRefIssues(policy, authRefs, k) ==
  IF k > Len(authRefs) THEN <<>>
  ELSE validateAuthRef(policy, authRefs[k], k - 1) \o authRefIssues(policy, authRefs, k + 1)

\* variant: a policy without the field is in error
validateAuthRefsFieldRequired(policy) ==
  IF ~Found(policy.requiredAuthenticationRefs)
  THEN << Issue(SeverityError, "Invalid requiredAuthenticationRefs", "LNKD-014") >>
  ELSE IF Len(Value(policy.requiredAuthenticationRefs)) = 0
  THEN << Issue(SeverityWarning, "No authentication requirements specified", "LNKD-015") >>
  ELSE authRefIssues(policy, Value(policy.requiredAuthenticationRefs), 1)

validateAuthRefs(policy) ==
  IF ~Found(policy.requiredAuthenticationRefs) \/ Len(Value(policy.requiredAuthenticationRefs)) = 0
  THEN << Issue(SeverityWarning, "No authentication requirements specified", "LNKD-015") >>
  ELSE authRefIssues(policy, Value(policy.requiredAuthenticationRefs), 1)

\* AuthPolicyValidator.Validate
ValidateAuthPolicy(policy) ==
  LET vr == NewResult("AuthorizationPolicy", policy)
  IN  IF ~policy.spec
      THEN Finalize([vr EXCEPT
                       !.issues = << Issue(SeverityError, "Missing or invalid spec", "LNKD-009") >>])
      ELSE Finalize([vr EXCEPT !.issues = validateTargetRef(policy) \o validateAuthRefs(policy)])

(***************************************************************************)
(* meshtls.go                                                              *)
(***************************************************************************)
IdentityMarker == ".serviceaccount.identity.linkerd"
\* strings.Contains(identity, marker), for the texts around the marker that
\* the identities of the cluster are made of
Contains(identity, marker) ==
  \E before \in {"", "frontend-sa.prod", "frontend-sa.dev"}, after \in {"", ".cluster.local"} :
     identity = before \o marker \o after
isValidIdentityFormat(identity) == Contains(identity, IdentityMarker)

RECURSIVE validateIdentities(_, _)
validateIdentities(identities, k) ==
  IF k > Len(identities) THEN <<>>
  ELSE (IF identities[k] = "*"
        THEN << Issue(SeverityWarning,
                      "Wildcard identity '*' allows all authenticated services", "LNKD-022") >>
        ELSE IF ~isValidIdentityFormat(identities[k])
        THEN << Issue(SeverityWarning,
                      "Identity '" \o identities[k] \o "' at index " \o ToString(k - 1)
                      \o " may not be in the correct format",
                      "LNKD-023") >>
        ELSE <<>>) \o validateIdentities(identities, k + 1)

RECURSIVE validateServiceAccounts(_, _)
validateServiceAccounts(serviceAccounts, k) ==
  IF k > Len(serviceAccounts) THEN <<>>
  ELSE LET sa == serviceAccounts[k]
       IN  (IF sa.name = ""
            THEN << Issue(SeverityError,
                          "Missing serviceAccount name at index " \o ToString(k - 1), "LNKD-025") >>
            ELSE IF sa.namespace = ""
            THEN << Issue(SeverityError,
                          "Missing serviceAccount namespace at index " \o ToString(k - 1),
                          "LNKD-026") >>
            ELSE IF << sa.namespace, sa.name >> \notin accounts
            THEN << Issue(SeverityWarning,
                          "ServiceAccount '" \o sa.name \o "' does not exist in namespace '"
                          \o sa.namespace \o "'",
                          "LNKD-027") >>
            ELSE <<>>) \o validateServiceAccounts(serviceAccounts, k + 1)

validateIdentitiesAndServiceAccounts(auth) ==
  IF Len(auth.identities) = 0 /\ Len(auth.serviceAccounts) = 0
  THEN << Issue(SeverityError, "Must specify at least one identity or serviceAccount", "LNKD-021") >>
  ELSE validateIdentities(auth.identities, 1) \o validateServiceAccounts(auth.serviceAccounts, 1)

\* MeshTLSValidator.Validate
ValidateMeshTLS(auth) ==
  LET vr == NewResult("MeshTLSAuthentication", auth)
  IN  IF ~auth.spec
      THEN Finalize([vr EXCEPT
                       !.issues = << Issue(SeverityError, "Missing or invalid spec", "LNKD-020") >>])
      ELSE Finalize([vr EXCEPT !.issues = validateIdentitiesAndServiceAccounts(auth)])


(***************************************************************************)
(* proxy.go.  The messages are given without the formatted value.          *)
(***************************************************************************)
Has(annotations, key) == key \in DOMAIN annotations

validateInjectionAnnotation(annotations) ==
  IF ~Has(annotations, InjectKey)
  THEN << Issue(SeverityInfo, "No linkerd.io/inject annotation set", "LNKD-P002") >>
  ELSE IF annotations[InjectKey] \notin {"enabled", "disabled", "ingress"}
  THEN << Issue(SeverityError,
                "Invalid inject value '" \o annotations[InjectKey]
                \o "', must be: enabled, disabled, or ingress",
                "LNKD-P003") >>
  ELSE <<>>

\* ^\d+(\.\d+)?(m|Mi|Gi|Ki|M|G|K)?$
isValidResourceQuantity(q) ==
  Found(q.number) /\ q.suffix \in {"", "m", "Mi", "Gi", "Ki", "M", "G", "K"}

\* the CPU quantity in thousandths of a core; 0 when ParseFloat fails
parseResourceQuantity(q) ==
  IF ~Found(q.number) THEN 0
  ELSE IF q.suffix = "m" THEN Value(q.number)
  ELSE IF q.suffix = "" THEN Value(q.number) * 1000
  ELSE 0

multipliers ==
  ("Ki" :> 1024) @@ ("Mi" :> 1024 * 1024) @@ ("Gi" :> 1024 * 1024 * 1024)
  @@ ("K" :> 1000) @@ ("M" :> 1000 * 1000) @@ ("G" :> 1000 * 1000 * 1000)

\* the memory quantity in bytes; 0 when ParseFloat fails
parseMemoryQuantity(q) ==
  IF ~Found(q.number) THEN 0
  ELSE IF q.suffix \in DOMAIN multipliers THEN Value(q.number) * multipliers[q.suffix]
  ELSE IF q.suffix = "" THEN Value(q.number)
  ELSE 0

validateCPURequest(annotations) ==
  IF Has(annotations, CPURequestKey) /\ ~isValidResourceQuantity(annotations[CPURequestKey])
  THEN << Issue(SeverityError, "Invalid CPU request format", "LNKD-P004") >>
  ELSE <<>>

validateCPULimit(annotations) ==
  LET hasRequest == Has(annotations, CPURequestKey)
      hasLimit == Has(annotations, CPULimitKey)
  IN  (IF hasLimit /\ ~isValidResourceQuantity(annotations[CPULimitKey])
       THEN << Issue(SeverityError, "Invalid CPU limit format", "LNKD-P005") >>
       ELSE <<>>)
      \o (IF hasLimit /\ ~hasRequest
          THEN << Issue(SeverityWarning, "CPU limit is set without CPU request", "LNKD-P006") >>
          ELSE IF hasLimit /\ hasRequest
          THEN LET reqVal == parseResourceQuantity(annotations[CPURequestKey])
                   limVal == parseResourceQuantity(annotations[CPULimitKey])
               IN  IF reqVal > 0 /\ limVal > 0 /\ limVal < reqVal
                   THEN << Issue(SeverityError, "CPU limit is lower than CPU request", "LNKD-P007") >>
                   ELSE <<>>
          ELSE <<>>)

validateMemoryRequest(annotations) ==
  IF Has(annotations, MemoryRequestKey) /\ ~isValidResourceQuantity(annotations[MemoryRequestKey])
  THEN << Issue(SeverityError, "Invalid memory request format", "LNKD-P008") >>
  ELSE <<>>

validateMemoryLimit(annotations) ==
  LET hasRequest == Has(annotations, MemoryRequestKey)
      hasLimit == Has(annotations, MemoryLimitKey)
  IN  (IF hasLimit /\ ~isValidResourceQuantity(annotations[MemoryLimitKey])
       THEN << Issue(SeverityError, "Invalid memory limit format", "LNKD-P009") >>
       ELSE <<>>)
      \o (IF hasLimit /\ ~hasRequest
          THEN << Issue(SeverityWarning, "Memory limit is set without memory request", "LNKD-P010") >>
          ELSE IF hasLimit /\ hasRequest
          THEN LET reqVal == parseMemoryQuantity(annotations[MemoryRequestKey])
                   limVal == parseMemoryQuantity(annotations[MemoryLimitKey])
               IN  IF reqVal > 0 /\ limVal > 0 /\ limVal < reqVal
                   THEN << Issue(SeverityError, "Memory limit is lower than memory request",
                                 "LNKD-P011") >>
                   ELSE <<>>
          ELSE <<>>)

validateLogLevel(annotations) ==
  IF ~Has(annotations, LogLevelKey) THEN <<>>
  ELSE LET logLevel == annotations[LogLevelKey]
       IN  (IF logLevel \notin {"trace", "debug", "info", "warn", "error"}
            THEN << Issue(SeverityError,
                          "Invalid log level '" \o logLevel
                          \o "', must be: trace, debug, info, warn, error",
                          "LNKD-P012") >>
            ELSE <<>>)
           \o (IF logLevel \in {"trace", "debug"}
               THEN << Issue(SeverityWarning,
                             "Log level '" \o logLevel
                             \o "' may impact performance and increase log volume",
                             "LNKD-P013") >>
               ELSE <<>>)

\* ^(stable|edge)-\d+\.\d+\.\d+$
validateProxyVersion(annotations) ==
  IF /\ Has(annotations, ProxyVersionKey)
     /\ ~( /\ annotations[ProxyVersionKey].channel \in {"stable", "edge"}
           /\ Len(annotations[ProxyVersionKey].numbers) = 3 )
  THEN << Issue(SeverityWarning,
                "Proxy version doesn't match expected format (stable-X.Y.Z or edge-X.Y.Z)",
                "LNKD-P014") >>
  ELSE <<>>

validateWaitBeforeExit(annotations) ==
  IF ~Has(annotations, WaitBeforeExitKey) THEN <<>>
  ELSE LET wait == annotations[WaitBeforeExitKey]
           err == ~Found(wait.seconds)
           seconds == IF err THEN 0 ELSE Value(wait.seconds)
       IN  (IF err \/ seconds < 0
            THEN << Issue(SeverityError, "Invalid wait-before-exit-seconds value", "LNKD-P015") >>
            ELSE <<>>)
           \o (IF seconds > 300
               THEN << Issue(SeverityWarning,
                             "Very long wait time (" \o ToString(seconds)
                             \o " seconds) may delay pod termination",
                             "LNKD-P016") >>
               ELSE <<>>)

annotationIssues(annotations) ==
  validateCPURequest(annotations) \o validateCPULimit(annotations)
  \o validateMemoryRequest(annotations) \o validateMemoryLimit(annotations)
  \o validateLogLevel(annotations) \o validateProxyVersion(annotations)
  \o validateWaitBeforeExit(annotations)

\* ProxyValidator.ValidateNamespace
ValidateNamespace(ns) ==
  Finalize([resourceType |-> "Namespace", name |-> ns.name, namespace |-> ns.name,
            valid |-> FALSE,
            issues |-> validateInjectionAnnotation(ns.annotations)
                       \o annotationIssues(ns.annotations)])

\* ProxyValidator.ValidatePod
ValidatePod(pod) ==
  LET hasProxy == \E k \in 1..Len(pod.containers) : pod.containers[k] = "linkerd-proxy"
      marked == Has(pod.annotations, InjectKey) /\ pod.annotations[InjectKey] = "enabled"
  IN  Finalize([NewResult("Pod", pod) EXCEPT
                  !.issues = validateInjectionAnnotation(pod.annotations)
                             \o (IF marked /\ ~hasProxy
                                 THEN << Issue(SeverityWarning,
                                               "Pod is marked for injection but doesn't have linkerd-proxy container",
                                               "LNKD-P001") >>
                                 ELSE <<>>)
                             \o annotationIssues(pod.annotations)])


(***************************************************************************)
(* validator.go: the orchestrator                                          *)
(***************************************************************************)
InvalidResourceType == "Invalid resource_type. Must be one of: server, authpolicy, meshtls, proxy, all"

\* variant: only the five documented values select validators
validatorsOfDocumented(resourceType) ==
  IF resourceType = "server" THEN << "serverValidator" >>
  ELSE IF resourceType = "authpolicy" THEN << "authPolicyValidator" >>
  ELSE IF resourceType = "meshtls" THEN << "meshTLSValidator" >>
  ELSE IF resourceType = "proxy" THEN << "proxyValidator" >>
  ELSE IF resourceType = "all"
  THEN << "serverValidator", "authPolicyValidator", "meshTLSValidator", "proxyValidator" >>
  ELSE <<>>

\* the switch on resourceType: the validators run, in order; none for the
\* default case
validatorsOf(resourceType) ==
  IF resourceType = "server" THEN << "serverValidator" >>
  ELSE IF resourceType \in {"authpolicy", "authorizationpolicy"} THEN << "authPolicyValidator" >>
  ELSE IF resourceType \in {"meshtls", "meshtlsauthentication"} THEN << "meshTLSValidator" >>
  ELSE IF resourceType \in {"proxy", "namespace"} THEN << "proxyValidator" >>
  ELSE IF resourceType \in {"all", ""}
  THEN << "serverValidator", "authPolicyValidator", "meshTLSValidator", "proxyValidator" >>
  ELSE <<>>

\* the position after a validator has run
validatorAfter(resourceType, validator) ==
  LET order == validatorsOf(resourceType)
      k == CHOOSE j \in 1..Len(order) : order[j] = validator
  IN  IF k < Len(order) THEN order[k + 1] ELSE "finalize"

\* variant: only the issues of severity info are dropped
filterIssuesDroppingInfo(vr, includeWarnings) ==
  IF includeWarnings THEN vr
  ELSE LET filteredIssues == SelectSeq(vr.issues, LAMBDA issue : issue.severity # SeverityInfo)
       IN  [vr EXCEPT !.issues = filteredIssues, !.valid = Len(filteredIssues) = 0]

\* the body of the loop of addResultsToReport for the results that pass the
\* name filter
filterIssues(vr, includeWarnings) ==
  IF includeWarnings THEN vr
  ELSE LET filteredIssues == SelectSeq(vr.issues, LAMBDA issue : issue.severity = SeverityError)
       IN  [vr EXCEPT !.issues = filteredIssues, !.valid = Len(filteredIssues) = 0]

RECURSIVE addResultsToReport(_, _, _, _, _)
addResultsToReport(cvr, results, k, resourceName, includeWarnings) ==
  IF k > Len(results) THEN cvr
  ELSE IF resourceName # "" /\ results[k].name # resourceName
  THEN addResultsToReport(cvr, results, k + 1, resourceName, includeWarnings)
  ELSE addResultsToReport(AddResult(cvr, filterIssues(results[k], includeWarnings)),
                          results, k + 1, resourceName, includeWarnings)

ListAuths(resource, namespace) ==
  SelectSeq(AuthShapes, LAMBDA a : a \in auths /\ a.resource = resource /\ InNamespace(a, namespace))

\* the list calls ServerValidator.Validate makes for the Servers of a list
RECURSIVE readsOfServers(_, _, _, _)
readsOfServers(items, podsOk, conflictsOk, k) ==
  IF k > Len(items) THEN <<>>
  ELSE (IF ListsPods(items[k]) THEN << Read("pods", items[k].namespace, podsOk[k]) >> ELSE <<>>)
       \o (IF items[k].spec THEN << Read("servers", items[k].namespace, conflictsOk[k]) >> ELSE <<>>)
       \o readsOfServers(items, podsOk, conflictsOk, k + 1)

\* variant: the report is a field that is not cleared at the start of a call
ValidateConfigReusingReport(namespace, resourceType, resourceName, includeWarnings) ==
  /\ pc = "idle"
  /\ call' = [op |-> "ValidateConfig", namespace |-> namespace, service |-> "",
              resourceType |-> resourceType, resourceName |-> resourceName,
              includeWarnings |-> includeWarnings]
  /\ report' = report
  /\ reads' = <<>>
  /\ IF validatorsOf(resourceType) = <<>>
     THEN /\ result' = ErrorResult(InvalidResourceType)
          /\ pc' = "done"
     ELSE /\ pc' = validatorsOf(resourceType)[1]
          /\ UNCHANGED result
  /\ UNCHANGED << cluster, serviceAccount, serverList, idx, allowedTargets, matchingServers >>

(***************************************************************************)
(* ValidateConfig: the switch on resourceType.  An unknown value ends the  *)
(* call with an error result.                                              *)
(***************************************************************************)
ValidateConfig(namespace, resourceType, resourceName, includeWarnings) ==
  /\ pc = "idle"
  /\ call' = [op |-> "ValidateConfig", namespace |-> namespace, service |-> "",
              resourceType |-> resourceType, resourceName |-> resourceName,
              includeWarnings |-> includeWarnings]
  /\ report' = NewReport
  /\ reads' = <<>>
  /\ IF validatorsOf(resourceType) = <<>>
     THEN /\ result' = ErrorResult(InvalidResourceType)
          /\ pc' = "done"
     ELSE /\ pc' = validatorsOf(resourceType)[1]
          /\ UNCHANGED result
  /\ UNCHANGED << cluster, serviceAccount, serverList, idx, allowedTargets, matchingServers >>

(***************************************************************************)
(* ServerValidator.ValidateAll and addResultsToReport.  A failed list      *)
(* gives no result.                                                        *)
(***************************************************************************)
ValidateAllServers ==
  /\ pc = "serverValidator"
  /\ \/ /\ reads' = Append(reads, Read("servers", call.namespace, FALSE))
        /\ UNCHANGED report
     \/ LET items == ListIn(servers, call.namespace)
        IN  \E podsOk, conflictsOk \in [1..Len(items) -> BOOLEAN] :
               /\ \A k \in 1..Len(items) : podsOk[k] \/ ListsPods(items[k])
               /\ \A k \in 1..Len(items) : conflictsOk[k] \/ items[k].spec
               /\ reads' = Append(reads, Read("servers", call.namespace, TRUE))
                           \o readsOfServers(items, podsOk, conflictsOk, 1)
               /\ report' = addResultsToReport(
                               report,
                               [k \in 1..Len(items) |-> ValidateServer(items[k], podsOk[k], conflictsOk[k])],
                               1, call.resourceName, call.includeWarnings)
  /\ pc' = validatorAfter(call.resourceType, "serverValidator")
  /\ UNCHANGED << cluster, call, serviceAccount, serverList, idx, allowedTargets,
                  matchingServers, result >>

(***************************************************************************)
(* AuthPolicyValidator.ValidateAll and addResultsToReport.                 *)
(***************************************************************************)
ValidateAllAuthPolicies ==
  /\ pc = "authPolicyValidator"
  /\ \/ /\ reads' = Append(reads, Read("authorizationpolicies", call.namespace, FALSE))
        /\ UNCHANGED report
     \/ LET items == ListIn(policies, call.namespace)
        IN  /\ reads' = Append(reads, Read("authorizationpolicies", call.namespace, TRUE))
            /\ report' = addResultsToReport(
                            report, [k \in 1..Len(items) |-> ValidateAuthPolicy(items[k])],
                            1, call.resourceName, call.includeWarnings)
  /\ pc' = validatorAfter(call.resourceType, "authPolicyValidator")
  /\ UNCHANGED << cluster, call, serviceAccount, serverList, idx, allowedTargets,
                  matchingServers, result >>

(***************************************************************************)
(* MeshTLSValidator.ValidateAll and addResultsToReport.                    *)
(***************************************************************************)
ValidateAllMeshTLS ==
  /\ pc = "meshTLSValidator"
  /\ \/ /\ reads' = Append(reads, Read("meshtlsauthentications", call.namespace, FALSE))
        /\ UNCHANGED report
     \/ LET items == ListAuths("meshtlsauthentications", call.namespace)
        IN  /\ reads' = Append(reads, Read("meshtlsauthentications", call.namespace, TRUE))
            /\ report' = addResultsToReport(
                            report, [k \in 1..Len(items) |-> ValidateMeshTLS(items[k])],
                            1, call.resourceName, call.includeWarnings)
  /\ pc' = validatorAfter(call.resourceType, "meshTLSValidator")
  /\ UNCHANGED << cluster, call, serviceAccount, serverList, idx, allowedTargets,
                  matchingServers, result >>

(***************************************************************************)
(* ProxyValidator: ValidateAllNamespaces for all namespaces,               *)
(* ValidateAllPodsInNamespace for one, and addResultsToReport.             *)
(***************************************************************************)
ValidateAllProxy ==
  /\ pc = "proxyValidator"
  /\ LET resource == IF call.namespace = "" THEN "namespaces" ELSE "pods"
         items == IF call.namespace = "" THEN namespaces ELSE ListIn(pods, call.namespace)
         results == [k \in 1..Len(items) |->
                       IF call.namespace = "" THEN ValidateNamespace(items[k])
                       ELSE ValidatePod(items[k])]
     IN  \/ /\ reads' = Append(reads, Read(resource, call.namespace, FALSE))
            /\ UNCHANGED report
         \/ /\ reads' = Append(reads, Read(resource, call.namespace, TRUE))
            /\ report' = addResultsToReport(report, results, 1,
                                            call.resourceName, call.includeWarnings)
  /\ pc' = validatorAfter(call.resourceType, "proxyValidator")
  /\ UNCHANGED << cluster, call, serviceAccount, serverList, idx, allowedTargets,
                  matchingServers, result >>

(***************************************************************************)
(* ValidateConfig: report.Finalize and the JSON result.                    *)
(***************************************************************************)
FinalizeReport ==
  /\ pc = "finalize"
  /\ result' = JSONResult(report)
  /\ pc' = "done"
  /\ UNCHANGED << cluster, call, serviceAccount, serverList, idx, allowedTargets,
                  matchingServers, report, reads >>

ValidateInputs ==
  (ValidationNamespaces \X ResourceTypes \X ResourceNames \X BOOLEAN)
  \cup ({""} \X OtherResourceTypes \X {""} \X {TRUE})

InitValidate ==
  /\ pods = PodShapes
  /\ servers \in Clusters(ServerShapes, MaxServers)
  /\ policies = PolicyShapes
  /\ auths = Range(AuthShapes)
  /\ namespaces = NamespaceShapes
  /\ accounts = AccountFixture
  /\ steps = 0
  /\ seen = {}
  /\ report = NewReport
  /\ pc = "idle"
  /\ call = Idle
  /\ serviceAccount = ""
  /\ serverList = <<>>
  /\ idx = 0
  /\ allowedTargets = <<>>
  /\ matchingServers = <<>>
  /\ reads = <<>>
  /\ result = NoResult

NextValidate ==
  \/ \E input \in ValidateInputs : ValidateConfig(input[1], input[2], input[3], input[4])
  \/ ValidateAllServers
  \/ ValidateAllAuthPolicies
  \/ ValidateAllMeshTLS
  \/ ValidateAllProxy
  \/ FinalizeReport
  \/ Return

SpecValidate == InitValidate /\ [][NextValidate]_vars


(***************************************************************************)
(* The owner of the objects.  Between the reads of the Object Source the   *)
(* owner creates, changes and deletes Servers, AuthorizationPolicies and   *)
(* authentication objects; a list returns the objects in key order.        *)
(***************************************************************************)
MaxSteps == 3
Key(object) == << object.namespace, object.name >>
\* the objects of a set in the order of their keys
Listing(order, objects) ==
  LET present == SelectSeq(order, LAMBDA key : \E o \in objects : Key(o) = key)
  IN  [k \in 1..Len(present) |-> CHOOSE o \in objects : Key(o) = present[k]]
ServerOrder == [k \in 1..Len(ServerShapes) |-> Key(ServerShapes[k])]
PolicyOrder == [k \in 1..Len(PolicyShapes) |-> Key(PolicyShapes[k])]

\* the objects the owner works on: two Servers, one of them in two forms,
\* two policies, one of them in two forms, and two authentication objects
OwnedServers ==
  { ServerShapes[2], ServerShapes[3],
    ServerShape("prod", "backend-server", Selector({<<"app", "backend">>}), <<9090>>, <<>>) }
OwnedPolicies ==
  { PolicyShapes[2], PolicyShapes[3],
    PolicyShape("prod", "allow-frontend", Target("backend-server"),
                << << Ref(MeshTLS, "sa-auth") >> >>) }
OwnedAuths == { AuthShapes[3], AuthShapes[4] }

OwnerCreates ==
  /\ steps < MaxSteps
  /\ steps' = steps + 1
  /\ \/ \E server \in OwnedServers :
           /\ \A s \in Range(servers) : Key(s) # Key(server)
           /\ servers' = Listing(ServerOrder, Range(servers) \cup {server})
           /\ UNCHANGED << policies, auths >>
     \/ \E policy \in OwnedPolicies :
           /\ \A p \in Range(policies) : Key(p) # Key(policy)
           /\ policies' = Listing(PolicyOrder, Range(policies) \cup {policy})
           /\ UNCHANGED << servers, auths >>
     \/ \E auth \in OwnedAuths :
           /\ auth \notin auths
           /\ auths' = auths \cup {auth}
           /\ UNCHANGED << servers, policies >>
  /\ UNCHANGED << pods, namespaces, accounts, pc, call, serviceAccount, serverList, idx,
                  allowedTargets, matchingServers, report, reads, result >>

OwnerChanges ==
  /\ steps < MaxSteps
  /\ steps' = steps + 1
  /\ \/ \E server \in OwnedServers :
           /\ \E s \in Range(servers) : Key(s) = Key(server) /\ s # server
           /\ servers' = [k \in 1..Len(servers) |->
                            IF Key(servers[k]) = Key(server) THEN server ELSE servers[k]]
           /\ UNCHANGED policies
     \/ \E policy \in OwnedPolicies :
           /\ \E p \in Range(policies) : Key(p) = Key(policy) /\ p # policy
           /\ policies' = [k \in 1..Len(policies) |->
                             IF Key(policies[k]) = Key(policy) THEN policy ELSE policies[k]]
           /\ UNCHANGED servers
  /\ UNCHANGED << pods, auths, namespaces, accounts, pc, call, serviceAccount, serverList, idx,
                  allowedTargets, matchingServers, report, reads, result >>

OwnerDeletes ==
  /\ steps < MaxSteps
  /\ steps' = steps + 1
  /\ \/ \E server \in OwnedServers \cap Range(servers) :
           /\ servers' = SelectSeq(servers, LAMBDA s : s # server)
           /\ UNCHANGED << policies, auths >>
     \/ \E policy \in OwnedPolicies \cap Range(policies) :
           /\ policies' = SelectSeq(policies, LAMBDA p : p # policy)
           /\ UNCHANGED << servers, auths >>
     \/ \E auth \in OwnedAuths \cap auths :
           /\ auths' = auths \ {auth}
           /\ UNCHANGED << servers, policies >>
  /\ UNCHANGED << pods, namespaces, accounts, pc, call, serviceAccount, serverList, idx,
                  allowedTargets, matchingServers, report, reads, result >>

(***************************************************************************)
(* The result is handed to the caller.  The Analyzer and the               *)
(* ConfigValidator live on; what the locals of the call held is left where *)
(* it was, for the next call to find.                                      *)
(***************************************************************************)
ReturnToCaller ==
  /\ pc = "done"
  /\ steps < MaxSteps
  /\ steps' = steps + 1
  /\ pc' = "idle"
  /\ call' = Idle
  /\ reads' = <<>>
  /\ result' = NoResult
  /\ UNCHANGED << pods, servers, policies, auths, namespaces, accounts, seen,
                  serviceAccount, serverList, idx, allowedTargets, matchingServers, report >>

OwnerNamespaces == {"prod"}
OwnerSources == {"frontend", "ghost"}
OwnerTargets == {"backend"}
OwnerResourceTypes == {"server", "authpolicy", "meshtls", "proxy"}

InitOwner ==
  /\ pods = PodShapes
  /\ servers = << ServerShapes[2], ServerShapes[3] >>
  /\ policies = << PolicyShapes[2], PolicyShapes[3], PolicyShapes[4] >>
  /\ auths = Range(AuthShapes)
  /\ namespaces = NamespaceShapes
  /\ accounts = AccountFixture
  /\ steps = 0
  /\ seen = {}
  /\ report = NewReport
  /\ pc = "idle"
  /\ call = Idle
  /\ serviceAccount = ""
  /\ serverList = <<>>
  /\ idx = 0
  /\ allowedTargets = <<>>
  /\ matchingServers = <<>>
  /\ reads = <<>>
  /\ result = NoResult

\* the owner acts between the calls
NextOwner ==
  \/ pc = "idle" /\ OwnerCreates /\ UNCHANGED seen
  \/ pc = "idle" /\ OwnerChanges /\ UNCHANGED seen
  \/ pc = "idle" /\ OwnerDeletes /\ UNCHANGED seen
  \/ \E ns \in OwnerNamespaces, svc \in OwnerSources : GetAllowedTargets(ns, svc)
  \/ ListServers
  \/ ForEachServer
  \/ ReturnAllowedTargets
  \/ \E ns \in OwnerNamespaces, svc \in OwnerTargets : GetAllowedSources(ns, svc)
  \/ FindAllowedSources
  \/ \E ns \in OwnerNamespaces, resourceType \in OwnerResourceTypes, includeWarnings \in BOOLEAN :
        ValidateConfig(ns, resourceType, "", includeWarnings)
  \/ ValidateAllServers
  \/ ValidateAllAuthPolicies
  \/ ValidateAllMeshTLS
  \/ ValidateAllProxy
  \/ FinalizeReport
  \/ ReturnToCaller

SpecOwner == InitOwner /\ [][NextOwner]_vars

(***************************************************************************)
(* One GetAllowedTargets call while the owner is at work: the owner acts   *)
(* between the reads of the call, from the pod list to the last policy     *)
(* list.  Every state the Object Source is in during the call is kept in   *)
(* seen.                                                                   *)
(***************************************************************************)
Snapshot == [servers |-> servers, policies |-> policies, auths |-> auths]
Reading == pc \in {"findAllowedTargets", "forEachServer"}

InitConcurrent ==
  /\ pods = PodShapes
  /\ servers = << ServerShapes[2], ServerShapes[3] >>
  /\ policies = << PolicyShapes[3] >>
  /\ auths = Range(AuthShapes)
  /\ namespaces = NamespaceShapes
  /\ accounts = AccountFixture
  /\ steps = 0
  /\ seen = { Snapshot }
  /\ report = NewReport
  /\ pc = "idle"
  /\ call = Idle
  /\ serviceAccount = ""
  /\ serverList = <<>>
  /\ idx = 0
  /\ allowedTargets = <<>>
  /\ matchingServers = <<>>
  /\ reads = <<>>
  /\ result = NoResult

NextConcurrent ==
  \/ \E ns \in OwnerNamespaces, svc \in OwnerSources : GetAllowedTargets(ns, svc)
  \/ ListServers
  \/ ForEachServer
  \/ ReturnAllowedTargets
  \/ Reading /\ OwnerCreates /\ seen' = seen \cup { Snapshot' }
  \/ Reading /\ OwnerChanges /\ seen' = seen \cup { Snapshot' }
  \/ Reading /\ OwnerDeletes /\ seen' = seen \cup { Snapshot' }

SpecConcurrent == InitConcurrent /\ [][NextConcurrent]_vars

(***************************************************************************)
(* Vocabulary of the properties of validation.                             *)
(***************************************************************************)
Validated == pc = "done" /\ call.op = "ValidateConfig" /\ HasBody
HasError(vr) == \E k \in 1..Len(vr.issues) : vr.issues[k].severity = "error"
\* the issues of a severity in the results of a report, by position
IssuePositions == 1..8
IssuesOf(cvr, severity) ==
  { kj \in (1..Len(cvr.results)) \X IssuePositions :
      /\ kj[2] <= Len(cvr.results[kj[1]].issues)
      /\ cvr.results[kj[1]].issues[kj[2]].severity = severity }
\* a validator was run by the call and its list succeeded
Listed(resource) ==
  \E k \in 1..Len(reads) :
     reads[k].resource = resource /\ reads[k].namespace = call.namespace /\ reads[k].ok
\* the results a validator can produce for the objects of the cluster
ValidatorResults ==
  { ValidateServer(s, p, c) : s \in Range(servers), p \in BOOLEAN, c \in BOOLEAN }
  \cup { ValidateAuthPolicy(p) : p \in Range(policies) }
  \cup { ValidateMeshTLS(a) : a \in { b \in auths : b.resource = "meshtlsauthentications" } }
  \cup { ValidateNamespace(n) : n \in Range(namespaces) }
  \cup { ValidatePod(p) : p \in Range(pods) }

(***************************************************************************)
(* C13  valid is false exactly when the result has an issue of severity    *)
(* error: in every result a validator produces, in every result of the     *)
(* report under construction and in every result of a returned report,     *)
(* with and without warnings.                                              *)
(***************************************************************************)
C13_ValidIffNoError ==
  /\ \A vr \in ValidatorResults : vr.valid <=> ~HasError(vr)
  /\ \A vr \in Range(report.results) : vr.valid <=> ~HasError(vr)
  /\ Validated => \A vr \in Range(Body.results) : vr.valid <=> ~HasError(vr)

\* a returned report, warnings included, with a valid result that has
\* warnings only and an invalid result that has warnings as well
C13_Witness ==
  /\ Validated
  /\ call.includeWarnings
  /\ \E vr \in Range(Body.results) :
        vr.valid /\ \E k \in 1..Len(vr.issues) : vr.issues[k].severity = "warning"
  /\ \E vr \in Range(Body.results) :
        ~vr.valid /\ \E k \in 1..Len(vr.issues) : vr.issues[k].severity = "warning"

(***************************************************************************)
(* C14  Report aggregation: in every report, under construction or         *)
(* returned, totalResources is the number of results, validResources the   *)
(* number of valid results, and summary.errors, summary.warnings and       *)
(* summary.info are the numbers of issues of each severity in the results. *)
(***************************************************************************)
Aggregated(cvr) ==
  /\ cvr.totalResources = Len(cvr.results)
  /\ cvr.validResources = Cardinality({ k \in 1..Len(cvr.results) : cvr.results[k].valid })
  /\ cvr.validResources <= cvr.totalResources
  /\ cvr.summary.errors = Cardinality(IssuesOf(cvr, "error"))
  /\ cvr.summary.warnings = Cardinality(IssuesOf(cvr, "warning"))
  /\ cvr.summary.info = Cardinality(IssuesOf(cvr, "info"))
  /\ \A k \in 1..Len(cvr.results) : DOMAIN cvr.results[k].issues \subseteq IssuePositions

C14_ReportAggregation ==
  /\ Aggregated(report)
  /\ Validated => Aggregated(Body)

\* a returned report of all validators with valid and invalid results and
\* issues of the three severities
C14_Witness ==
  /\ Validated
  /\ Len(validatorsOf(call.resourceType)) = 4
  /\ 0 < Body.validResources /\ Body.validResources < Body.totalResources
  /\ Body.summary.errors > 1 /\ Body.summary.warnings > 1 /\ Body.summary.info > 0


(***************************************************************************)
(* Servers and selectors, restated for the properties.                     *)
(***************************************************************************)
SelectorOf(server) ==
  IF Found(server.podSelector) /\ Found(Value(server.podSelector).matchLabels)
  THEN Value(Value(server.podSelector).matchLabels) ELSE {}
\* two Servers of one namespace that listen on the same port
SamePort(s1, s2) ==
  /\ s1 # s2
  /\ s1.namespace = s2.namespace
  /\ s1.spec /\ s2.spec
  /\ Found(s1.port) /\ Found(s2.port)
  /\ Value(s1.port) = Value(s2.port)
\* some label set satisfies both selectors: no key is bound to two values
CouldSelectCommonPod(labels1, labels2) ==
  \A l1 \in labels1, l2 \in labels2 : l1[1] = l2[1] => l1[2] = l2[2]
\* the result reports the conflict with a Server, as an error
ReportsConflict(vr, other) ==
  \E k \in 1..Len(vr.issues) :
     /\ vr.issues[k].severity = "error"
     /\ vr.issues[k].code = "LNKD-008"
     /\ vr.issues[k].message = "Conflicts with Server '" \o other.name \o "' on port "
                               \o ToString(Value(other.port))
\* the results of a report for an object
ResultsFor(cvr, resourceType, object) ==
  { vr \in Range(cvr.results) :
      vr.resourceType = resourceType /\ vr.namespace = object.namespace /\ vr.name = object.name }
\* the Server validator ran over the namespace of the call, its list and
\* every Server list made for the conflicts succeeded
ConflictsChecked ==
  /\ Listed("servers")
  /\ \A k \in 1..Len(reads) : reads[k].resource = "servers" => reads[k].ok

(***************************************************************************)
(* C15  Conflict detection is symmetric: for two Servers of one namespace  *)
(* with equal port whose selectors share a label, validating either one    *)
(* reports an error-severity conflict naming the other, so both results    *)
(* are invalid; a returned report whose conflict lists succeeded shows     *)
(* both conflicts.                                                         *)
(***************************************************************************)
C15_ConflictsAreSymmetric ==
  \A s1, s2 \in Range(servers) :
     (SamePort(s1, s2) /\ SelectorOf(s1) \cap SelectorOf(s2) # {}) =>
        /\ \A podsOk \in BOOLEAN :
              /\ ReportsConflict(ValidateServer(s1, podsOk, TRUE), s2)
              /\ ReportsConflict(ValidateServer(s2, podsOk, TRUE), s1)
              /\ ~ValidateServer(s1, podsOk, TRUE).valid
              /\ ~ValidateServer(s2, podsOk, TRUE).valid
        /\ (Validated /\ ConflictsChecked) =>
              /\ \A vr \in ResultsFor(Body, "Server", s1) : ReportsConflict(vr, s2) /\ ~vr.valid
              /\ \A vr \in ResultsFor(Body, "Server", s2) : ReportsConflict(vr, s1) /\ ~vr.valid

\* a returned report with the results of two Servers that share one label
\* of two
C15_Witness ==
  /\ Validated /\ ConflictsChecked
  /\ \E s1, s2 \in Range(servers) :
        /\ SamePort(s1, s2)
        /\ SelectorOf(s1) \cap SelectorOf(s2) # {}
        /\ SelectorOf(s1) # SelectorOf(s2)
        /\ ResultsFor(Body, "Server", s1) # {}
        /\ ResultsFor(Body, "Server", s2) # {}

(***************************************************************************)
(* C16  labelsOverlap over-approximates the intersection of selectors:     *)
(* for two Servers of one namespace with equal port whose selectors could  *)
(* select a common pod, labelsOverlap is true and a returned report whose  *)
(* conflict lists succeeded shows the conflict.                            *)
(***************************************************************************)
C16_OverlapIsConservative ==
  \A s1, s2 \in Range(servers) :
     ( /\ Validated /\ ConflictsChecked
       /\ SamePort(s1, s2)
       /\ CouldSelectCommonPod(SelectorOf(s1), SelectorOf(s2)) ) =>
        /\ labelsOverlap(SelectorOf(s1), SelectorOf(s2))
        /\ \A vr \in ResultsFor(Body, "Server", s1) : ReportsConflict(vr, s2)


(***************************************************************************)
(* The objects in the scope of a validation, and what makes them           *)
(* consistent.                                                             *)
(***************************************************************************)
InScope(object) == call.namespace = "" \/ object.namespace = call.namespace
ScopeServers == { s \in Range(servers) : InScope(s) }
ScopePolicies == { p \in Range(policies) : InScope(p) }
ScopeMeshTLS == { a \in auths : a.resource = "meshtlsauthentications" /\ InScope(a) }
\* the namespace a reference denotes: its own, or that of its owner
Denoted(ref, owner) == IF "namespace" \in DOMAIN ref THEN ref.namespace ELSE owner.namespace
KnownProtocols == {"unknown", "HTTP/1", "HTTP/2", "gRPC", "opaque", "TLS"}

\* same port and a shared label, or a selector that selects every pod
Conflict(s1, s2) ==
  /\ SamePort(s1, s2)
  /\ \/ SelectorOf(s1) = {}
     \/ SelectorOf(s2) = {}
     \/ SelectorOf(s1) \cap SelectorOf(s2) # {}
ConsistentServer(s) ==
  /\ s.spec
  /\ SelectorOf(s) # {}
  /\ Found(s.port) /\ Value(s.port) \in 1..65535
  /\ Found(s.proxyProtocol) => Value(s.proxyProtocol) \in KnownProtocols
  /\ ~\E other \in Range(servers) : Conflict(s, other)
TargetsExistingServer(p) ==
  /\ p.spec
  /\ Found(p.targetRef)
  /\ Value(p.targetRef).kind = "Server"
  /\ \E s \in Range(servers) :
        s.name = Value(p.targetRef).name /\ s.namespace = Denoted(Value(p.targetRef), p)
RefResolves(p, ref) ==
  /\ ref.name # ""
  /\ \E a \in auths :
        /\ a.resource \in ResourceOf(ref.kind)
        /\ a.name = ref.name
        /\ a.namespace = Denoted(ref, p)
WellFormed(sa) == sa.name # "" /\ sa.namespace # ""

\* the weaker reading: one resolving reference per policy; identities,
\* or else a well-formed list of service accounts
ConsistentAsClaimed ==
  /\ \A s \in ScopeServers : ConsistentServer(s)
  /\ \A p \in ScopePolicies :
        TargetsExistingServer(p) /\ \E ref \in RefsOf(p) : RefResolves(p, ref)
  /\ \A a \in ScopeMeshTLS :
        /\ a.spec
        /\ \/ a.identities # <<>>
           \/ a.serviceAccounts # <<>> /\ \A sa \in Range(a.serviceAccounts) : WellFormed(sa)

\* every reference resolves and every service account is well formed
Consistent ==
  /\ \A s \in ScopeServers : ConsistentServer(s)
  /\ \A p \in ScopePolicies :
        TargetsExistingServer(p) /\ \A ref \in RefsOf(p) : RefResolves(p, ref)
  /\ \A a \in ScopeMeshTLS :
        /\ a.spec
        /\ a.identities # <<>> \/ a.serviceAccounts # <<>>
        /\ \A sa \in Range(a.serviceAccounts) : WellFormed(sa)

PolicyObjectTypes == {"Server", "AuthorizationPolicy", "MeshTLSAuthentication"}

(***************************************************************************)
(* C17 (as claimed)  Round trip: when every Server in scope has a          *)
(* non-empty selector, a port in 1..65535, a known or no proxyProtocol and *)
(* no conflict, every policy targets an existing Server and has a          *)
(* reference of a known kind that resolves, and every MeshTLSAuthentication*)
(* has identities or a well-formed serviceAccounts list, the returned      *)
(* report has no error and every result is valid.                          *)
(***************************************************************************)
C17_RoundTripAsClaimed ==
  (Validated /\ ConsistentAsClaimed) =>
     /\ Body.summary.errors = 0
     /\ \A vr \in Range(Body.results) : vr.valid /\ ~HasError(vr)

(***************************************************************************)
(* C17 (amended)  Round trip: when every Server in scope is as above,      *)
(* every policy targets an existing Server and each of its references is   *)
(* of a known kind and resolves, and every MeshTLSAuthentication has an    *)
(* identity or a service account and each of its service accounts has a    *)
(* name and a namespace, every result of the returned report for a Server, *)
(* an AuthorizationPolicy or a MeshTLSAuthentication is valid and has no   *)
(* issue of severity error.                                                *)
(***************************************************************************)
C17_RoundTrip ==
  (Validated /\ Consistent) =>
     \A vr \in Range(Body.results) :
        vr.resourceType \in PolicyObjectTypes => vr.valid /\ ~HasError(vr)

\* a returned report of all validators over a consistent namespace, with
\* the results of two Servers, three policies and three authentications
C17_Witness ==
  /\ Validated /\ Consistent
  /\ Len(validatorsOf(call.resourceType)) = 4
  /\ call.resourceName = ""
  /\ Cardinality({ k \in 1..Len(Body.results) : Body.results[k].resourceType = "Server" }) = 2
  /\ Cardinality({ k \in 1..Len(Body.results) :
                     Body.results[k].resourceType = "AuthorizationPolicy" }) = 3
  /\ Cardinality({ k \in 1..Len(Body.results) :
                     Body.results[k].resourceType = "MeshTLSAuthentication" }) = 3


\* the policy's targetRef names a Server of the policy's own namespace
NamesOwnServer(p) ==
  /\ p.spec
  /\ Found(p.targetRef)
  /\ \E s \in Range(servers) :
        s.name = Value(p.targetRef).name /\ s.namespace = p.namespace

(***************************************************************************)
(* C18  Every AuthorizationPolicy whose targetRef.name does not name a     *)
(* Server existing in the policy's own namespace is reported invalid, with *)
(* an issue of severity error, for every form of its targetRef.            *)
(***************************************************************************)
C18_TargetInOwnNamespace ==
  Validated =>
     \A p \in Range(policies) :
        ~NamesOwnServer(p) =>
           \A vr \in ResultsFor(Body, "AuthorizationPolicy", p) : ~vr.valid /\ HasError(vr)


DocumentedResourceTypes == {"server", "authpolicy", "meshtls", "proxy", "all"}
\* the documented values, their long forms, and the absent value
AcceptedResourceTypes ==
  DocumentedResourceTypes \cup {"authorizationpolicy", "meshtlsauthentication", "namespace", ""}

MissingIdentifier == call.namespace = "" \/ call.service = ""

(***************************************************************************)
(* C20  Input errors never reach the object source: a call of              *)
(* GetAllowedTargets or GetAllowedSources with an empty namespace or an    *)
(* empty workload returns an error to the caller and has made no list or   *)
(* get call.                                                               *)
(***************************************************************************)
C20_InputErrorsNeverRead ==
  ( /\ pc = "done"
    /\ call.op \in {"GetAllowedTargets", "GetAllowedSources"}
    /\ MissingIdentifier ) =>
       result.isError /\ reads = <<>>


(***************************************************************************)
(* Vocabulary of point-to-point connectivity.                              *)
(***************************************************************************)
\* the analysis a finished call returns
Analysis == Body
\* the service accounts the pods of a workload run under
AccountsOf(namespace, service) ==
  { (IF pods[k].serviceAccountName = "" THEN "default" ELSE pods[k].serviceAccountName) :
      k \in { j \in 1..Len(pods) : pods[j].namespace = namespace /\ pods[j].app = service } }
\* the Servers of a workload: those of its namespace that select app=<workload>
ServersOf(namespace, service) ==
  { s \in Range(servers) :
      /\ s.namespace = namespace
      /\ Found(s.podSelector)
      /\ Found(Value(s.podSelector).matchLabels)
      /\ <<"app", service>> \in Value(Value(s.podSelector).matchLabels) }
\* some policy authorizes the source workload for a Server of the target
Connected(sourceNamespace, sourceService, targetNamespace, targetService) ==
  \E server \in ServersOf(targetNamespace, targetService), policy \in Range(policies),
     account \in AccountsOf(sourceNamespace, sourceService) :
     Authorizes(policy, server, sourceNamespace, account)

(***************************************************************************)
(* C21  AnalyzeConnectivity decides from the declared policies: its        *)
(* analysis names the target namespace, the source namespace when the      *)
(* argument is empty, and reports allowed = true only when some            *)
(* AuthorizationPolicy authorizes the source workload for a Server of the  *)
(* target workload.                                                        *)
(***************************************************************************)
C21_DecidesFromPolicies ==
  Finished("AnalyzeConnectivity") =>
     /\ ~result.isError
     /\ Analysis.target.namespace =
           (IF call.targetNamespace = "" THEN call.namespace ELSE call.targetNamespace)
     /\ Analysis.allowed =>
           Connected(call.namespace, call.service, Analysis.target.namespace, call.targetService)

\* the half that holds: an empty targetNamespace is the source namespace
C21_DefaultTargetNamespace ==
  Finished("AnalyzeConnectivity") =>
     Analysis.target.namespace =
        (IF call.targetNamespace = "" THEN call.namespace ELSE call.targetNamespace)


(***************************************************************************)
(* The result of a call as a function of the objects present and of the    *)
(* arguments alone, for the case that every read succeeds.                 *)
(***************************************************************************)
RECURSIVE ForwardResolution(_, _, _)
ForwardResolution(k, sourceNamespace, account) ==
  IF k > Len(servers) THEN <<>>
  ELSE targetsOfServer(servers[k], ListIn(policies, servers[k].namespace), 1, sourceNamespace, account)
       \o ForwardResolution(k + 1, sourceNamespace, account)

TargetsNow(sourceNamespace, sourceService) ==
  LET got == getServiceAccountForService(sourceNamespace, sourceService)
      targets == ForwardResolution(1, sourceNamespace, got.serviceAccount)
  IN  IF got.err # "" THEN ErrorResult(got.err)
      ELSE JSONResult([source |-> [namespace |-> sourceNamespace, service |-> sourceService,
                                   serviceAccount |-> got.serviceAccount],
                       allowedTargets |-> targets,
                       totalTargets |-> Len(targets)])

SourcesNow(targetNamespace, targetService) ==
  LET matching == findServersForService(ListIn(servers, targetNamespace), targetService)
      sources == findAllowedSources(targetNamespace, matching, ListIn(policies, targetNamespace))
  IN  IF Len(matching) = 0
      THEN TextResult("No Linkerd Servers found for service " \o targetService
                      \o " in namespace " \o targetNamespace)
      ELSE JSONResult([target |-> [namespace |-> targetNamespace, service |-> targetService],
                       matchingServers |-> matching,
                       allowedSources |-> sources,
                       totalSources |-> BagCardinality(sources)])

\* the results of one validator over the objects present
ResultsNow(validator, namespace) ==
  IF validator = "serverValidator"
  THEN LET items == ListIn(servers, namespace)
       IN  [k \in 1..Len(items) |-> ValidateServer(items[k], TRUE, TRUE)]
  ELSE IF validator = "authPolicyValidator"
  THEN LET items == ListIn(policies, namespace)
       IN  [k \in 1..Len(items) |-> ValidateAuthPolicy(items[k])]
  ELSE IF validator = "meshTLSValidator"
  THEN LET items == ListAuths("meshtlsauthentications", namespace)
       IN  [k \in 1..Len(items) |-> ValidateMeshTLS(items[k])]
  ELSE IF namespace = ""
  THEN [k \in 1..Len(namespaces) |-> ValidateNamespace(namespaces[k])]
  ELSE LET items == ListIn(pods, namespace)
       IN  [k \in 1..Len(items) |-> ValidatePod(items[k])]

RECURSIVE ReportNow(_, _, _, _, _, _)
ReportNow(cvr, validators, k, namespace, resourceName, includeWarnings) ==
  IF k > Len(validators) THEN cvr
  ELSE ReportNow(addResultsToReport(cvr, ResultsNow(validators[k], namespace), 1,
                                    resourceName, includeWarnings),
                 validators, k + 1, namespace, resourceName, includeWarnings)

ValidationNow(namespace, resourceType, resourceName, includeWarnings) ==
  IF validatorsOf(resourceType) = <<>> THEN ErrorResult(InvalidResourceType)
  ELSE JSONResult(ReportNow(NewReport, validatorsOf(resourceType), 1,
                            namespace, resourceName, includeWarnings))

ResultNow ==
  IF call.op = "GetAllowedTargets" THEN TargetsNow(call.namespace, call.service)
  ELSE IF call.op = "GetAllowedSources" THEN SourcesNow(call.namespace, call.service)
  ELSE ValidationNow(call.namespace, call.resourceType, call.resourceName, call.includeWarnings)

\* something an earlier call computed is still around, and the owner has
\* since deleted an object it was computed from
StaleTargets ==
  \E d \in Range(allowedTargets) :
     ~\E p \in Range(policies) : p.namespace = d.namespace /\ p.name = d.authorizationPolicy
StaleReport ==
  \E vr \in Range(report.results) :
     /\ vr.resourceType = "AuthorizationPolicy"
     /\ ~\E p \in Range(policies) : p.namespace = vr.namespace /\ p.name = vr.name

(***************************************************************************)
(* C22  No derived state survives a call: whatever calls were made before  *)
(* and whatever the owner created, changed or deleted between them, the    *)
(* result of a GetAllowedTargets, GetAllowedSources or ValidateConfig call *)
(* all of whose reads succeed is the result computed from the objects      *)
(* present at that call and from its arguments alone.                      *)
(***************************************************************************)
C22_NoDerivedState ==
  ( /\ pc = "done"
    /\ call.op \in {"GetAllowedTargets", "GetAllowedSources", "ValidateConfig"}
    /\ AllReadsOk ) =>
       result = ResultNow

\* a forward call has returned its targets while the report of an earlier
\* validation names a policy the owner has deleted since
C22_Witness ==
  /\ Finished("GetAllowedTargets") /\ HasBody /\ AllReadsOk
  /\ Len(Body.allowedTargets) > 0
  /\ StaleReport

\* a validation has returned its report while the targets of an earlier
\* forward call name a policy the owner has deleted since
C22_WitnessValidation ==
  /\ Validated /\ AllReadsOk
  /\ Body.totalResources > 0
  /\ StaleTargets


(***************************************************************************)
(* Forward resolution of one state of the Object Source, as the set of     *)
(* (namespace, Server, policy) triples it authorizes for a source.         *)
(***************************************************************************)
GrantsIn(snapshot, policy, server, sourceNamespace, account) ==
  \E ref \in RefsOf(policy) : \E a \in snapshot.auths :
     /\ a.resource \in ResourceOf(ref.kind)
     /\ a.namespace = server.namespace
     /\ a.name = ref.name
     /\ Grants(a, sourceNamespace, account)
ResolutionOf(snapshot, sourceNamespace, account) ==
  { << sp[1].namespace, sp[1].name, sp[2].name >> :
      sp \in { pair \in Range(snapshot.servers) \X Range(snapshot.policies) :
                 /\ Describable(pair[1])
                 /\ Targets(pair[2], pair[1])
                 /\ GrantsIn(snapshot, pair[2], pair[1], sourceNamespace, account) } }
Returned == { << d.namespace, d.server, d.authorizationPolicy >> : d \in Range(Body.allowedTargets) }

(***************************************************************************)
(* C23  Each resolution is a function of one snapshot: also when the owner *)
(* creates, changes or deletes objects between the reads of a              *)
(* GetAllowedTargets call, the targets it returns are the forward          *)
(* resolution of one state the Object Source was in between the start and  *)
(* the end of the call.                                                    *)
(***************************************************************************)
C23_OneSnapshot ==
  (Finished("GetAllowedTargets") /\ HasBody /\ AllReadsOk) =>
     \E snapshot \in seen :
        Returned = ResolutionOf(snapshot, call.namespace, Body.source.serviceAccount)


\* the report of the call in progress had it been made with warnings
Unfiltered ==
  ReportNow(NewReport, validatorsOf(call.resourceType), 1,
            call.namespace, call.resourceName, TRUE)
ErrorsOf(issues) == SelectSeq(issues, LAMBDA issue : issue.severity = "error")

(***************************************************************************)
(* C24  Dropping warnings is a projection: a ValidateConfig call with      *)
(* includeWarnings = false, all of whose reads succeed, returns the        *)
(* resources of the report with warnings, in the same order and with the   *)
(* same valid flags, the same totalResources, validResources and           *)
(* summary.errors; the issues of each result are the error issues of the   *)
(* unfiltered result, in their order, and summary.warnings and             *)
(* summary.info are 0.                                                     *)
(***************************************************************************)
C24_DroppingWarningsProjects ==
  (Validated /\ AllReadsOk /\ ~call.includeWarnings) =>
     /\ Len(Body.results) = Len(Unfiltered.results)
     /\ \A k \in 1..Len(Body.results) :
           /\ Body.results[k].resourceType = Unfiltered.results[k].resourceType
           /\ Body.results[k].namespace = Unfiltered.results[k].namespace
           /\ Body.results[k].name = Unfiltered.results[k].name
           /\ Body.results[k].valid = Unfiltered.results[k].valid
           /\ Body.results[k].issues = ErrorsOf(Unfiltered.results[k].issues)
     /\ Body.totalResources = Unfiltered.totalResources
     /\ Body.validResources = Unfiltered.validResources
     /\ Body.summary.errors = Unfiltered.summary.errors
     /\ Body.summary.warnings = 0
     /\ Body.summary.info = 0

\* a report without warnings for objects whose unfiltered report has
\* errors, warnings and infos, and a result that holds an error and a warning
C24_Witness ==
  /\ Validated /\ AllReadsOk /\ ~call.includeWarnings
  /\ Unfiltered.summary.errors > 0
  /\ Unfiltered.summary.warnings > 0
  /\ Unfiltered.summary.info > 0
  /\ \E k \in 1..Len(Unfiltered.results) :
        /\ HasError(Unfiltered.results[k])
        /\ Len(Body.results[k].issues) < Len(Unfiltered.results[k].issues)


\* the policy authorizes the source for a Server of namespace N: a reference
\* of a known kind resolves in N to an object that lists the source
CanonicalIdentity(account, sourceNamespace) ==
  account \o "." \o sourceNamespace \o ".serviceaccount.identity.linkerd.cluster.local"
ListsSource(auth, N, sourceNamespace, account) ==
  \/ \E identity \in Range(auth.identities) :
        identity = "*" \/ identity = CanonicalIdentity(account, sourceNamespace)
  \/ \E sa \in Range(auth.serviceAccounts) :
        /\ sa.name = account
        /\ (IF sa.namespace = "" THEN N ELSE sa.namespace) = sourceNamespace
IsSourceAuthorized(policy, N, sourceNamespace, account) ==
  \E ref \in RefsOf(policy) :
     /\ ref.kind \in {"MeshTLSAuthentication", "NetworkAuthentication"}
     /\ \E auth \in auths :
           /\ auth.resource = (IF ref.kind = "MeshTLSAuthentication"
                               THEN "meshtlsauthentications" ELSE "networkauthentications")
           /\ auth.namespace = N
           /\ auth.name = ref.name
           /\ ListsSource(auth, N, sourceNamespace, account)

FirstPodWithoutAccount ==
  \E k \in 1..Len(pods) :
     /\ pods[k].namespace = call.namespace /\ pods[k].app = call.service
     /\ pods[k].serviceAccountName = ""
     /\ \A j \in 1..(k - 1) : ~(pods[j].namespace = call.namespace /\ pods[j].app = call.service)

(***************************************************************************)
(* C26  Identity resolution defaults the service account: when the first   *)
(* pod labelled app=<workload> has an empty serviceAccountName,            *)
(* GetAllowedTargets evaluates the policies for the service account        *)
(* "default", reports source.serviceAccount = "default", and describes a   *)
(* Server for a policy exactly when the policy authorizes the identity     *)
(* default.<sourceNamespace>.serviceaccount.identity.linkerd.cluster.local *)
(* or the service account {default, sourceNamespace}.                      *)
(***************************************************************************)
C26_DefaultServiceAccount ==
  (call.op = "GetAllowedTargets" /\ reads[1].ok /\ FirstPodWithoutAccount) =>
     /\ serviceAccount = "default"
     /\ (pc = "done" /\ HasBody) =>
           /\ Body.source.serviceAccount = "default"
           /\ \A k \in 1..Len(servers) : \A policy \in Range(policies) :
                 (Describable(servers[k]) /\ ~Skipped(k) /\ Targets(policy, servers[k])) =>
                    ( (\E d \in Range(Body.allowedTargets) : Names(d, servers[k], policy))
                      <=> IsSourceAuthorized(policy, servers[k].namespace, call.namespace, "default") )

\* the source prod/batch, whose only pod names no service account, is
\* returned a Server authorized through the entry {default, prod}
C26_Witness ==
  /\ Finished("GetAllowedTargets") /\ HasBody /\ FirstPodWithoutAccount
  /\ \E d \in Range(Body.allowedTargets) : \E policy \in Range(policies) :
        /\ policy.namespace = d.namespace /\ policy.name = d.authorizationPolicy
        /\ \A ref \in RefsOf(policy) : \A auth \in Resolves(ref, d.namespace) :
              /\ "*" \notin Range(auth.identities)
              /\ \E sa \in Range(auth.serviceAccounts) : sa.name = "default"


(***************************************************************************)
(* Policies without authentication requirements, for validation and for    *)
(* forward resolution.                                                     *)
(***************************************************************************)
\* the policy targets a Server by kind and name, and the Server exists
TargetsExistingServerByKind(policy) ==
  /\ policy.spec
  /\ Found(policy.targetRef)
  /\ Value(policy.targetRef).kind = "Server"
  /\ \E server \in Range(servers) : Targets(policy, server)
\* the AuthorizationPolicy validator listed the policies of the call and the
\* report was returned
PoliciesValidated ==
  /\ Finished("ValidateConfig") /\ HasBody
  /\ \E k \in 1..Len(reads) : reads[k].resource = "authorizationpolicies" /\ reads[k].ok
PolicyResults(policy) ==
  { k \in 1..Len(Body.results) :
       /\ Body.results[k].resourceType = "AuthorizationPolicy"
       /\ Body.results[k].namespace = policy.namespace
       /\ Body.results[k].name = policy.name }
GrantedBy(policy) ==
  { << sourceNamespace, account >> \in Namespaces \X ServiceAccounts :
       \/ \E server \in Range(servers) :
             /\ Targets(policy, server)
             /\ checkSourceAllowed(policy, server.namespace, sourceNamespace, account)
       \/ \E d \in Range(ForwardResolution(1, sourceNamespace, account)) :
             d.namespace = policy.namespace /\ d.authorizationPolicy = policy.name }

DescriptorsOf(targets, server) ==
  { i \in 1..Len(targets) :
       targets[i].namespace = server.namespace /\ targets[i].server = server.name }
AuthorizingPolicies(server, sourceNamespace, account) ==
  { policy \in Range(policies) :
       /\ Targets(policy, server)
       /\ IsSourceAuthorized(policy, server.namespace, sourceNamespace, account) }
DistinctTriples(targets) ==
  \A i, j \in 1..Len(targets) :
     ( /\ targets[i].namespace = targets[j].namespace
       /\ targets[i].server = targets[j].server
       /\ targets[i].authorizationPolicy = targets[j].authorizationPolicy ) => i = j

Covers(descriptor, sourceNamespace, account) ==
  \/ "type" \in DOMAIN descriptor /\ descriptor.type = "wildcard"
  \/ /\ "identity" \in DOMAIN descriptor
     /\ descriptor.identity = account \o "." \o sourceNamespace \o TrustSuffix
  \/ /\ "serviceAccount" \in DOMAIN descriptor
     /\ descriptor.namespace = sourceNamespace /\ descriptor.serviceAccount = account
\* the app labels of a target descriptor
AppsOf(descriptor) == { l[2] : l \in { m \in descriptor.labels : m[1] = "app" } }
\* the reverse result for the target lists the Server and covers the source
ReverseAgrees(descriptor, sourceNamespace, account) ==
  \A targetService \in AppsOf(descriptor) :
     LET reverse == SourcesNow(descriptor.namespace, targetService)
     IN  /\ Found(reverse.body)
         /\ descriptor.server \in Range(Value(reverse.body).matchingServers)
         /\ \E source \in BagToSet(Value(reverse.body).allowedSources) :
               Covers(source, sourceNamespace, account)

(***************************************************************************)
(* C29  Forward and reverse resolution agree: for every descriptor (Server *)
(* S, policy P) of an AllowedTargets result for a source of namespace N    *)
(* with service account A, where S has the podSelector label app = T, the  *)
(* AllowedSources result for (S.namespace, T) over the same objects lists  *)
(* S among matchingServers and holds a descriptor covering the source: the *)
(* wildcard, the identity A.N.serviceaccount.identity.linkerd.cluster.local *)
(* or the service account A of namespace N.                                *)
(***************************************************************************)
C29_ForwardReverseAgree ==
  (Finished("GetAllowedTargets") /\ HasBody) =>
     \A d \in Range(Body.allowedTargets) :
        ReverseAgrees(d, call.namespace, Body.source.serviceAccount)


(***************************************************************************)
(* C29 (restricted)  Forward and reverse resolution agree when no identity *)
(* of an authentication object of the Server's namespace is the text under *)
(* which reverse resolution files the wildcard.                            *)
(***************************************************************************)
C29_AgreeWithoutReservedIdentity ==
  (Finished("GetAllowedTargets") /\ HasBody) =>
     \A d \in Range(Body.allowedTargets) :
        (\A auth \in auths :
            auth.namespace = d.namespace => "all-authenticated" \notin Range(auth.identities))
        => ReverseAgrees(d, call.namespace, Body.source.serviceAccount)


(***************************************************************************)
(* The objects a policy's references denote, for the validator and for     *)
(* forward and reverse resolution.                                         *)
(***************************************************************************)
\* validateTargetRef: the Server of that name in targetRef.namespace, or in
\* the policy's namespace when the reference has none
ValidatorTarget(p) ==
  IF ~Found(p.targetRef) THEN {}
  ELSE { s \in Range(servers) :
            /\ s.name = Value(p.targetRef).name
            /\ s.namespace = namespaceOf(Value(p.targetRef), p.namespace) }
\* findAllowedTargets and findAllowedSources: a Server in whose namespace
\* the policy is listed and whose name is targetRef.name
ResolverTarget(p) ==
  { s \in Range(servers) :
       /\ \E k \in 1..Len(ListIn(policies, s.namespace)) : ListIn(policies, s.namespace)[k] = p
       /\ Found(p.targetRef)
       /\ Value(p.targetRef).name = s.name }
\* validateAuthRef: the object of that kind and name in ref.namespace, or in
\* the policy's namespace when the reference has none
ValidatorAuth(p, ref) ==
  { a \in auths : /\ a.resource \in ResourceOf(ref.kind)
                  /\ a.name = ref.name
                  /\ a.namespace = namespaceOf(ref, p.namespace) }
\* checkAuthenticationMatch and extractSourcesFromAuth: the object of that
\* kind and name in the namespace of the Server, which is the policy's
ResolverAuth(p, ref) ==
  UNION { Get(resource, p.namespace, ref.name) : resource \in ResourceOf(ref.kind) }
DenoteAlike(p) ==
  /\ ValidatorTarget(p) = ResolverTarget(p)
  /\ \A ref \in RefsOf(p) : ValidatorAuth(p, ref) = ResolverAuth(p, ref)
HasNamespacedRef(p) ==
  \/ Found(p.targetRef) /\ "namespace" \in DOMAIN Value(p.targetRef)
  \/ \E ref \in RefsOf(p) : "namespace" \in DOMAIN ref

(***************************************************************************)
(* C30  Validator and resolver resolve references alike: for every policy  *)
(* whose result in a returned report has no issue of severity error, the   *)
(* targetRef and every requiredAuthenticationRef denote for forward and    *)
(* reverse resolution the objects the validator found to exist.            *)
(***************************************************************************)
C30_ResolveAlike ==
  Validated =>
     \A p \in Range(policies) :
        \A vr \in ResultsFor(Body, "AuthorizationPolicy", p) : ~HasError(vr) => DenoteAlike(p)

(***************************************************************************)
(* C30 (restricted)  The same for the policies none of whose references    *)
(* carries a namespace.                                                    *)
(***************************************************************************)
C30_ResolveAlikeWithoutNamespaces ==
  \A p \in Range(policies) :
     ~HasNamespacedRef(p) =>
        /\ ~HasError(ValidateAuthPolicy(p)) => DenoteAlike(p)
        /\ Validated =>
              \A vr \in ResultsFor(Body, "AuthorizationPolicy", p) : ~HasError(vr) => DenoteAlike(p)

=============================================================================
